---- MODULE Spec2Model ----
(***************************************************************************)
(* Verification model of the GM-PlayArea release-pipeline utilities:        *)
(*   - check_repos.py: the repository state monitor (snapshot diff,          *)
(*     pagination, persisted state file);                                    *)
(*   - the Jira changelog tools (issue-ID extraction, rich-text flattening,  *)
(*     issue detail fetch, issue updater, and the main() of each tool).      *)
(* Strings whose content matters (scanned text, issue types, titles) are     *)
(* sequences of one-character strings.                                       *)
(***************************************************************************)
EXTENDS Integers, Sequences, FiniteSets, TLC

VARIABLES
    remote,     \* the organisation's repositories on the hosting service: name -> archived
    file,       \* repos_state.json: [exists, members]
    run,        \* per monitor process: the position and locals of main()
    last,       \* history: summary of the most recent completed monitor run
    x_tool,     \* issue-ID extractor: the script whose extractor is called
    x_ext,      \* issue-ID extractor: the input file's extension
    x_text,     \* issue-ID extractor: the content of the input
    x_ids,      \* issue-ID extractor: the elements returned
    x_pc,       \* issue-ID extractor: "call" before the call, "ret" after it
    a_in,       \* rich-text flattener: the argument adf_json
    a_out,      \* rich-text flattener: the value returned, or the exception raised
    a_pc,       \* rich-text flattener: "call" before the call, "ret" after it
    fetch,      \* issue detail fetcher: one call, its arguments, answer and result
    upd,        \* issue updater: one call, its arguments, the answers and the calls made
    job,        \* changelog orchestrator: one run of a tool's main()
    mf          \* manifest tool: one run, its input document, the files and the exit

monVars == <<remote, file, run, last>>
exVars == <<x_tool, x_ext, x_text, x_ids, x_pc>>
adfVars == <<a_in, a_out, a_pc>>
fetchVars == <<fetch>>
updVars == <<upd>>
jobVars == <<job>>
mfVars == <<mf>>

vars == <<remote, file, run, last, x_tool, x_ext, x_text, x_ids, x_pc,
          a_in, a_out, a_pc, fetch, upd, job, mf>>

(***************************************************************************)
(* Bounds of the model.                                                      *)
(***************************************************************************)
\* Repositories a page of the listing endpoint holds in the model (the server side
\* of per_page, scaled down so that several pages occur).
PageLen == 1
\* Monitor processes.
NumProcs == 2
\* Longest run of digits in a scanned token.
MaxDigits == 5
\* Longest list of child nodes in a rich-text document.
MaxKids == 2
\* Longest list of transitions the tracker offers for an issue.
MaxTransitions == 2
\* Most changelog files given to one run of an orchestrator.
MaxFiles == 2
\* Most entries of the require_files list of a manifest.
MaxItems == 2

(***************************************************************************)
(* check_repos.py                                                            *)
(***************************************************************************)
RepoNames == {"a", "b", "c"}
NameOrder == <<"a", "b", "c">>

\* per_page=100 in the listing URL
PER_PAGE == 100
\* page = 1
FIRST_PAGE == 1
\* the status fetch_all_repos accepts
HTTP_OK == 200

ErrorStatuses == {403, 500}
ResponseBody(status) ==
    IF status = 403 THEN "rate limit exceeded"
    ELSE IF status = 500 THEN "server error" ELSE "[...]"

Procs == 1..NumProcs

Snapshots == UNION {[S -> BOOLEAN] : S \in SUBSET RepoNames}
EmptySnapshot == [n \in {} |-> FALSE]

Min(a, b) == IF a < b THEN a ELSE b

RECURSIVE ListingFrom(_, _)
ListingFrom(r, i) ==
    IF i > Len(NameOrder) THEN <<>>
    ELSE (IF NameOrder[i] \in DOMAIN r
          THEN <<[name |-> NameOrder[i], archived |-> r[NameOrder[i]]]>>
          ELSE <<>>) \o ListingFrom(r, i + 1)

\* The listing the hosting service holds for the organisation, in its order.
Listing(r) == ListingFrom(r, 1)

\* The service's answer body to GET /orgs/{org}/repos?per_page=..&page=n
Page(r, n) ==
    LET l == Listing(r)
        lo == (n - 1) * PageLen + 1
        hi == Min(n * PageLen, Len(l))
    IN  IF n < 1 THEN <<>> ELSE SubSeq(l, lo, hi)

\* current_state = {repo['name']: repo['archived'] for repo in repos}
BuildState(repos) ==
    LET names == {repos[i].name : i \in DOMAIN repos}
        lastIdx(n) == CHOOSE i \in DOMAIN repos :
                         /\ repos[i].name = n
                         /\ \A j \in DOMAIN repos : repos[j].name = n => j <= i
    IN  [n \in names |-> repos[lastIdx(n)].archived]

\* json.dump(state, f): the members of the JSON object written
JsonDump(state) == {<<n, state[n]>> : n \in DOMAIN state}

\* json.load(f): the mapping read back from the members of a JSON object
JsonLoad(members) ==
    [n \in {m[1] : m \in members} |-> (CHOOSE m \in members : m[1] = n)[2]]

NoFile == [exists |-> FALSE, members |-> {}]

\* A plausible slip: a missing file read as an empty previous snapshot.
LoadPreviousStateNoFirstRun(f) ==
    IF ~f.exists THEN [state |-> EmptySnapshot, is_first_run |-> FALSE]
    ELSE [state |-> JsonLoad(f.members), is_first_run |-> FALSE]

\* load_previous_state(filename) -> (state, is_first_run)
LoadPreviousState(f) ==
    IF ~f.exists THEN [state |-> EmptySnapshot, is_first_run |-> TRUE]
    ELSE [state |-> JsonLoad(f.members), is_first_run |-> FALSE]

\* A plausible slip: the names are written, the archived flags are not.
SaveCurrentStateNamesOnly(state) ==
    [exists |-> TRUE, members |-> {<<n, FALSE>> : n \in DOMAIN state}]

\* save_current_state(state, filename): the file after the write
SaveCurrentState(state) == [exists |-> TRUE, members |-> JsonDump(state)]

\* A plausible slip: the two snapshots swapped.
NewReposSwapped(old_state, new_state) ==
    {repo \in DOMAIN old_state : repo \notin DOMAIN new_state}

\* analyze_repo_changes: new_repos
NewRepos(old_state, new_state) ==
    {repo \in DOMAIN new_state : repo \notin DOMAIN old_state}

\* A plausible slip: every repository known before counts as changed.
ArchivedChangedAnyKnown(old_state, new_state) ==
    {repo \in DOMAIN new_state : repo \in DOMAIN old_state}

\* analyze_repo_changes: archived_changed
ArchivedChanged(old_state, new_state) ==
    {repo \in DOMAIN new_state :
        repo \in DOMAIN old_state /\ new_state[repo] # old_state[repo]}

\* print_changes: the lines printed, by kind
PrintChanges(new_repos, archived_changed) ==
    <<IF new_repos # {} THEN "NEW_REPOS" ELSE "NO_NEW_REPOS",
      IF archived_changed # {} THEN "ARCHIVED_CHANGED" ELSE "NO_ARCHIVED_CHANGED">>

NoError == [code |-> 0, body |-> ""]
NoRun == [exists |-> FALSE, first |-> FALSE, repos |-> <<>>]
NoPred == [exists |-> FALSE, first |-> FALSE, same_listing |-> FALSE]

IdleRun == [pc |-> "idle", page |-> FIRST_PAGE, repos |-> <<>>, reqs |-> <<>>,
            resps |-> <<>>, current_state |-> EmptySnapshot,
            old_state |-> EmptySnapshot, is_first_run |-> FALSE,
            diffed |-> FALSE, new_repos |-> {}, archived_changed |-> {},
            out |-> <<>>, err |-> NoError, exit_code |-> 0, saved |-> FALSE,
            pred |-> NoPred, overlap |-> FALSE, older |-> FALSE,
            overtaken |-> FALSE]

Active(p) == run[p].pc \in {"fetch", "load", "diff", "save"}
Finished(p) == run[p].pc \in {"done", "aborted"}

\* History kept beside each run, read by no statement of the program:
\*   overlap    another run was between its first request and its save at some
\*              moment of this run;
\*   older      another run obtained its complete listing after this run did,
\*              before this run saved;
\*   overtaken  such a run with a later listing has already saved.
Listed(p) == run[p].pc \in {"load", "diff", "save"}

\* main(), lines 130-135: read the environment; exit(1) when a variable is missing.
\* A new run of process p begins (its previous run, if any, has ended).
StartRun(p) ==
    /\ run[p].pc \in {"idle", "done", "aborted"}
    /\ \E token \in BOOLEAN, org \in BOOLEAN :
          run' = [q \in Procs |->
                    IF q # p
                    THEN [run[q] EXCEPT !.overlap = @ \/ (token /\ org /\ Active(q))]
                    ELSE IF ~token \/ ~org
                    THEN [IdleRun EXCEPT !.pc = "aborted", !.out = <<"ENV_ERROR">>,
                                         !.exit_code = 1]
                    ELSE [IdleRun EXCEPT !.pc = "fetch",
                                         !.overlap = \E o \in Procs \ {p} : Active(o)]]
    /\ UNCHANGED <<remote, file, last>>

\* A plausible slip: an error response ends the loop like an empty page does.
AfterPageBreaksOnError(r, resp) ==
    IF resp.status # HTTP_OK \/ resp.data = <<>>
    THEN [r EXCEPT !.pc = "load"]
    ELSE [r EXCEPT !.repos = @ \o resp.data, !.page = @ + 1]

\* A plausible slip: an error answer is recorded and the run goes on with the
\* pages it has.
AfterPageWarnsOnError(r, resp) ==
    IF resp.status # HTTP_OK
    THEN [r EXCEPT !.pc = "load",
                   !.err = [code |-> resp.status, body |-> resp.text]]
    ELSE IF resp.data = <<>>
    THEN [r EXCEPT !.pc = "load"]
    ELSE [r EXCEPT !.repos = @ \o resp.data, !.page = @ + 1]

\* fetch_all_repos, lines 63-71: what one loop iteration makes of the response.
AfterPage(r, resp) ==
    IF resp.status # HTTP_OK
    THEN [r EXCEPT !.pc = "aborted", !.exit_code = 1,
                   !.err = [code |-> resp.status, body |-> resp.text]]
    ELSE IF resp.data = <<>>
    THEN [r EXCEPT !.pc = "load"]
    ELSE [r EXCEPT !.repos = @ \o resp.data, !.page = @ + 1]

\* fetch_all_repos, lines 60-71: one iteration of the loop, one page request.
FetchPage(p) ==
    /\ run[p].pc = "fetch"
    /\ \E status \in {HTTP_OK} \cup ErrorStatuses :
          LET req == [page |-> run[p].page, per_page |-> PER_PAGE]
              resp == [status |-> status,
                       data |-> IF status = HTTP_OK THEN Page(remote, run[p].page)
                                ELSE <<>>,
                       text |-> ResponseBody(status)]
              r1 == [run[p] EXCEPT !.reqs = Append(@, req), !.resps = Append(@, resp)]
              r2 == AfterPage(r1, resp)
          IN  run' = [q \in Procs |->
                        IF q = p THEN r2
                        ELSE [run[q] EXCEPT !.older = @ \/ (r2.pc = "load" /\ Listed(q))]]
    /\ UNCHANGED <<remote, file, last>>

\* main(), lines 139-142: build the current snapshot, load the previous one.
LoadState(p) ==
    /\ run[p].pc = "load"
    /\ LET prev == LoadPreviousState(file)
       IN  run' = [run EXCEPT ![p] =
                    [@ EXCEPT !.pc = "diff",
                              !.current_state = BuildState(run[p].repos),
                              !.old_state = prev.state,
                              !.is_first_run = prev.is_first_run,
                              !.pred = [exists |-> last.exists, first |-> last.first,
                                        same_listing |-> last.exists
                                                         /\ last.repos = run[p].repos]]]
    /\ UNCHANGED <<remote, file, last>>

\* main(), lines 144-149: the first-run notice, or the diff and its report.
Compare(r) ==
    IF r.is_first_run
    THEN [r EXCEPT !.pc = "save", !.out = Append(@, "FIRST_RUN")]
    ELSE LET nr == NewRepos(r.old_state, r.current_state)
             ac == ArchivedChanged(r.old_state, r.current_state)
         IN  [r EXCEPT !.pc = "save", !.diffed = TRUE, !.new_repos = nr,
                       !.archived_changed = ac,
                       !.out = @ \o PrintChanges(nr, ac)]

Diff(p) ==
    /\ run[p].pc = "diff"
    /\ run' = [run EXCEPT ![p] = Compare(run[p])]
    /\ UNCHANGED <<remote, file, last>>

\* A plausible slip: the save placed in the first-run branch.
FileAfterRunFirstOnly(r, f) ==
    IF r.is_first_run THEN SaveCurrentState(r.current_state) ELSE f

\* main(), line 152: the state file after the last statement of a run.
FileAfterRun(r, f) == SaveCurrentState(r.current_state)

Save(p) ==
    /\ run[p].pc = "save"
    /\ file' = FileAfterRun(run[p], file)
    /\ run' = [q \in Procs |->
                 IF q = p THEN [run[p] EXCEPT !.pc = "done", !.saved = TRUE]
                 ELSE [run[q] EXCEPT !.overtaken = @ \/ (Listed(q) /\ run[q].older)]]
    /\ last' = [exists |-> TRUE, first |-> run[p].is_first_run, repos |-> run[p].repos]
    /\ UNCHANGED remote

\* The organisation changes between listings: a repository is created or deleted,
\* or its archived flag flips.
RemoteChangeWithin(S) ==
    /\ \A p \in Procs : run[p].pc # "fetch"
    /\ \E s \in S :
          /\ s # remote
          /\ remote' = s
    /\ UNCHANGED <<file, run, last>>

RemoteChange == RemoteChangeWithin(Snapshots)

\* The organisations used where two runs overlap: one repository, a second one
\* created, the first one archived.
RaceSnapshots ==
    {s \in Snapshots : /\ "a" \in DOMAIN s
                       /\ "b" \notin DOMAIN s
                       /\ ("c" \in DOMAIN s => ~s["c"])}

(***************************************************************************)
(* Issue-ID extraction: extract_jira_titles.py, parse2.py,                   *)
(* jira_changelog_processor.py, parse_jira_titles.py                         *)
(***************************************************************************)
UpperLetters == {"A", "B", "C", "D", "E", "F", "G", "H", "I", "J", "K", "L", "M",
                 "N", "O", "P", "Q", "R", "S", "T", "U", "V", "W", "X", "Y", "Z"}
LowerLetters == {"a", "b", "c", "d", "e", "f", "g", "h", "i", "j", "k", "l", "m",
                 "n", "o", "p", "q", "r", "s", "t", "u", "v", "w", "x", "y", "z"}
DigitChars == {"0", "1", "2", "3", "4", "5", "6", "7", "8", "9"}

\* \w of the re module
IsWordChar(c) == c \in UpperLetters \cup LowerLetters \cup DigitChars \cup {"_"}
\* \d of the re module
IsDigit(c) == c \in DigitChars

\* \b between s[k] and s[k+1] (k = 0: the start; k = Len(s): the end)
WordBoundary(s, k) ==
    LET before == k >= 1 /\ IsWordChar(s[k])
        after == k + 1 <= Len(s) /\ IsWordChar(s[k + 1])
    IN  before # after

\* s holds t at position i
HasAt(s, i, t) == i + Len(t) - 1 <= Len(s) /\ SubSeq(s, i, i + Len(t) - 1) = t

RECURSIVE DigitRun(_, _)
\* the number of digits s holds from position i on
DigitRun(s, i) == IF i <= Len(s) /\ IsDigit(s[i]) THEN 1 + DigitRun(s, i + 1) ELSE 0

ESS == <<"E", "S", "S">>
NMS == <<"N", "M", "S">>
DOPS == <<"D", "O", "P", "S">>

\* r'\b(ESS|NMS)-\d+\b': a capturing group, any number of digits (max 0: no limit)
TitlesPattern == [prefixes |-> <<ESS, NMS>>, min |-> 1, max |-> 0, group |-> TRUE]
\* r'\b(?:ESS|NMS|DOPS)-\d{3,4}\b'
DetailsPattern == [prefixes |-> <<ESS, NMS, DOPS>>, min |-> 3, max |-> 4, group |-> FALSE]

Tools == {"extract_jira_titles", "parse2", "jira_changelog_processor", "parse_jira_titles"}

PatternOf(tool) == IF tool = "extract_jira_titles" THEN TitlesPattern ELSE DetailsPattern

\* The end of the match of "-" digits \b from position j of s, 0 when there is none:
\* the quantifier is greedy and gives digits back until \b holds.
TailEnd(s, j, pat) ==
    IF ~(j <= Len(s) /\ s[j] = "-") THEN 0
    ELSE LET have == DigitRun(s, j + 1)
             most == IF pat.max = 0 THEN have ELSE Min(have, pat.max)
             ok == {k \in pat.min..most : WordBoundary(s, j + k)}
         IN  IF ok = {} THEN 0
             ELSE j + (CHOOSE k \in ok : \A k2 \in ok : k2 <= k)

\* The match of the pattern starting at position i of s: [end, prefix], end = 0 when
\* there is none. The alternatives of the group are tried in order.
MatchAt(s, i, pat) ==
    LET alts == {a \in DOMAIN pat.prefixes :
                    /\ HasAt(s, i, pat.prefixes[a])
                    /\ TailEnd(s, i + Len(pat.prefixes[a]), pat) > 0}
    IN  IF ~WordBoundary(s, i - 1) \/ alts = {} THEN [end |-> 0, prefix |-> <<>>]
        ELSE LET a == CHOOSE x \in alts : \A y \in alts : x <= y
             IN  [end |-> TailEnd(s, i + Len(pat.prefixes[a]), pat),
                  prefix |-> pat.prefixes[a]]

RECURSIVE FindAllFrom(_, _, _)
\* pattern.findall(s): the non-overlapping matches from left to right; with a
\* capturing group in the pattern, the text of the group instead of the match.
FindAllFrom(s, i, pat) ==
    IF i > Len(s) THEN <<>>
    ELSE LET m == MatchAt(s, i, pat)
         IN  IF m.end = 0 THEN FindAllFrom(s, i + 1, pat)
             ELSE <<IF pat.group THEN m.prefix ELSE SubSeq(s, i, m.end)>>
                  \o FindAllFrom(s, m.end + 1, pat)

FindAll(s, pat) == FindAllFrom(s, 1, pat)

SeqToSet(q) == {q[i] : i \in DOMAIN q}

RECURSIVE SplitLines(_)
\* for line in f: the lines of a text, each with its line end
SplitLines(s) ==
    IF s = <<>> THEN <<>>
    ELSE LET ends == {i \in DOMAIN s : s[i] = "\n"}
         IN  IF ends = {} THEN <<s>>
             ELSE LET e == CHOOSE i \in ends : \A j \in ends : i <= j
                  IN  <<SubSeq(s, 1, e)>> \o SplitLines(SubSeq(s, e + 1, Len(s)))

\* json.dumps of one character of a string
JsonEscape(c) ==
    IF c = "\n" THEN <<"\\", "n">>
    ELSE IF c = "\"" THEN <<"\\", "\"">>
    ELSE IF c = "\\" THEN <<"\\", "\\">>
    ELSE <<c>>

RECURSIVE JsonEscapeAll(_)
JsonEscapeAll(s) == IF s = <<>> THEN <<>> ELSE JsonEscape(Head(s)) \o JsonEscapeAll(Tail(s))

\* json.dumps(json.load(f)) of a document that is one JSON string with value s
JsonDumpsString(s) == <<"\"">> \o JsonEscapeAll(s) \o <<"\"">>

\* The texts the pattern is applied to: the whole text (title-only tool), the lines
\* of a .txt file, or the serialized document of a .json file; none for a file
\* extension jira_changelog_processor does not support.
ScannedTexts(tool, ext, text) ==
    IF tool = "extract_jira_titles" THEN <<text>>
    ELSE IF tool # "jira_changelog_processor" THEN SplitLines(text)
    ELSE IF ext = "json" THEN <<JsonDumpsString(text)>>
    ELSE IF ext = "txt" THEN SplitLines(text)
    ELSE <<>>

\* extract_jira_ids / extract_jira_ids_from_file: the set of elements returned
ExtractJiraIds(tool, ext, text) ==
    LET parts == ScannedTexts(tool, ext, text)
    IN  UNION {SeqToSet(FindAll(parts[i], PatternOf(tool))) : i \in DOMAIN parts}

DigitSeq == <<"1", "2", "3", "4", "5", "6", "7", "8", "9", "0">>
SomeRef == NMS \o <<"-", "1", "2", "3">>
LeftContexts == {<<>>, <<" ">>, <<"x">>, <<"X">>, <<"_">>, <<"-">>, <<"\n">>, <<"7">>,
                 SomeRef \o <<" ">>}
TokenPrefixes == {ESS, NMS, DOPS, <<"e", "s", "s">>, <<"X", "X", "X">>}
Separators == {<<"-">>, <<"_">>}
RightContexts == {<<>>, <<" ">>, <<"x">>, <<"_">>, <<"-">>, <<".">>, <<"\n">>,
                  <<" ">> \o SomeRef}

\* The scanned inputs of the model: one token in a left and a right context.
InputTexts ==
    {l \o pre \o sep \o SubSeq(DigitSeq, 1, d) \o r :
        l \in LeftContexts, pre \in TokenPrefixes, sep \in Separators,
        d \in 0..MaxDigits, r \in RightContexts}

\* One call of the tool's extractor on the input.
Extract ==
    /\ x_pc = "call"
    /\ x_ids' = ExtractJiraIds(x_tool, x_ext, x_text)
    /\ x_pc' = "ret"
    /\ UNCHANGED <<x_tool, x_ext, x_text>>

(***************************************************************************)
(* Rich-text flattening: extract_text_from_adf                               *)
(* (jira_changelog_processor.py, parse_jira_titles.py, parse2.py)            *)
(***************************************************************************)
\* JSON values as json.loads gives them: None, a number, a str, a list, a dict.
\* Of a dict only the keys the function reads are kept, each a value or Absent.
Absent == [k |-> "absent"]
JNull == [k |-> "null"]
JNum == [k |-> "num"]
JStr(chars) == [k |-> "str", s |-> chars]
JList(items) == [k |-> "list", items |-> items]
JDict(type, text, content) ==
    [k |-> "dict", type |-> type, text |-> text, content |-> content]

\* An exception leaving the function
Raise(exc) == [k |-> "raise", exc |-> exc]

TEXT == <<"t", "e", "x", "t">>
DOC == <<"d", "o", "c">>

RECURSIVE ConcatAll(_)
ConcatAll(q) == IF q = <<>> THEN <<>> ELSE Head(q) \o ConcatAll(Tail(q))

\* ''.join(results): TypeError when an item is not a str; an exception raised while
\* the items are produced leaves the join.
JoinResults(results) ==
    IF \E i \in DOMAIN results : results[i].k = "raise"
    THEN results[CHOOSE i \in DOMAIN results :
                    /\ results[i].k = "raise"
                    /\ \A j \in DOMAIN results : results[j].k = "raise" => i <= j]
    ELSE IF \E i \in DOMAIN results : results[i].k # "str" THEN Raise("TypeError")
    ELSE JStr(ConcatAll([i \in DOMAIN results |-> results[i].s]))

RECURSIVE ExtractTextFromAdf(_)
\* for child in c: the values the iteration yields, or the TypeError of iterating a
\* value that is not iterable. Iterating a str yields its characters, iterating a
\* dict its keys: strings, for which the function returns ''.
OverChildren(c) ==
    IF c.k = "list"
    THEN JoinResults([i \in DOMAIN c.items |-> ExtractTextFromAdf(c.items[i])])
    ELSE IF c.k \in {"str", "dict"} THEN JStr(<<>>)
    ELSE Raise("TypeError")

\* extract_text_from_adf(adf_json)
ExtractTextFromAdf(v) ==
    IF v.k = "dict"
    THEN IF v.type = JStr(TEXT)
         THEN (IF v.text = Absent THEN JStr(<<>>) ELSE v.text)
         ELSE IF v.content # Absent THEN OverChildren(v.content)
         ELSE JStr(<<>>)
    ELSE IF v.k = "list"
    THEN JoinResults([i \in DOMAIN v.items |-> ExtractTextFromAdf(v.items[i])])
    ELSE JStr(<<>>)

\* The documents of the model: scalars, nodes without children, and nodes and lists
\* whose children are those.
AdfScalars == {JNull, JNum, JStr(<<"A">>)}
AdfTypes == {Absent, JStr(TEXT), JStr(DOC)}
AdfTexts == {Absent, JStr(<<"A">>), JStr(<<"B">>), JNull}
AdfFlatContents == {Absent, JNull, JStr(<<"A", "B">>)}
AdfLeaves ==
    AdfScalars \cup {JDict(t, x, c) : t \in AdfTypes, x \in AdfTexts, c \in AdfFlatContents}
AdfLists == {JList(q) : q \in UNION {[1..n -> AdfLeaves] : n \in 0..MaxKids}}
AdfInputs ==
    AdfLeaves \cup AdfLists
    \cup {JDict(t, x, c) : t \in AdfTypes, x \in {Absent, JStr(<<"A">>)}, c \in AdfLists}

\* One call of extract_text_from_adf.
Flatten ==
    /\ a_pc = "call"
    /\ a_out' = ExtractTextFromAdf(a_in)
    /\ a_pc' = "ret"
    /\ UNCHANGED a_in

(***************************************************************************)
(* Issue detail fetch: get_jira_details (parse2.py, jira_changelog_processor.py,
   parse_jira_titles.py) and fetch_jira_title (extract_jira_titles.py)        *)
(***************************************************************************)
\* The one character U+2014 of the placeholder "—"
EM_DASH == JStr(<<"EM DASH">>)

\* A JSON object of which the function reads the key `name` (status, issuetype)
NameObj(name) == [k |-> "dict", name |-> name]
\* A JSON object of which the function reads the key `value` (customfield_10053)
ValueObj(value) == [k |-> "dict", value |-> value]

\* The `fields` object of an issue: each key a value or Absent
Fields(summary, status, issuetype, pre, post, flag) ==
    [summary |-> summary, status |-> status, issuetype |-> issuetype,
     customfield_10131 |-> pre, customfield_10096 |-> post, customfield_10053 |-> flag]

\* The environment of the process: whether each variable is set and non-empty
Envs == [JIRA_URL : BOOLEAN, JIRA_EMAIL : BOOLEAN, JIRA_API_TOKEN : BOOLEAN]
FullEnv == [JIRA_URL |-> TRUE, JIRA_EMAIL |-> TRUE, JIRA_API_TOKEN |-> TRUE]

\* if not base_url or not email or not token
ConfigMissing(env) == ~env.JIRA_URL \/ ~env.JIRA_EMAIL \/ ~env.JIRA_API_TOKEN

DecimalDigit(d) == DigitSeq[IF d = 0 THEN 10 ELSE d]

RECURSIVE IntToChars(_)
\* str(n) of a natural number
IntToChars(n) ==
    IF n < 10 THEN <<DecimalDigit(n)>> ELSE IntToChars(n \div 10) \o <<DecimalDigit(n % 10)>>

\* f"(Error {response.status_code})"
ErrorTitle(status) == JStr(<<"(", "E", "r", "r", "o", "r", " ">> \o IntToChars(status) \o <<")">>)

\* d.get(key, default) for a key that is a value or Absent
GetOr(v, default) == IF v = Absent THEN default ELSE v

\* fields.get(key, {}).get("name", "—"): AttributeError when the value is no dict
NameOf(v) ==
    IF v = Absent THEN EM_DASH
    ELSE IF v.k # "dict" THEN Raise("AttributeError")
    ELSE GetOr(v.name, EM_DASH)

\* extract_text_from_adf(fields.get(key, {})) or "—"
NoteOf(v) ==
    LET t == ExtractTextFromAdf(IF v = Absent THEN JDict(Absent, Absent, Absent) ELSE v)
    IN  IF t.k = "raise" THEN t
        ELSE IF t = JNull \/ t = JStr(<<>>) THEN EM_DASH
        ELSE t

\* fields.get(FLAG, {}).get("value") if isinstance(fields.get(FLAG), dict) else "—"
IncludeFlag(v) ==
    IF v.k = "dict" THEN GetOr(v.value, JNull) ELSE EM_DASH

HasType(tool) == tool = "parse2"
HasFlag(tool) == tool \in {"jira_changelog_processor", "parse2"}

\* The detail record of a tool: the keys the tool does not have are Absent.
Detail(tool, jira, title, status, type, pre, post, flag) ==
    [k |-> "detail", jira |-> jira, title |-> title, status |-> status,
     type |-> IF HasType(tool) THEN type ELSE Absent,
     pre_change |-> pre, post_change |-> post,
     include_in_release_notes |-> IF HasFlag(tool) THEN flag ELSE Absent]

\* The first exception among the values of a record under construction, if any.
FirstRaise(values) ==
    IF \E i \in DOMAIN values : values[i].k = "raise"
    THEN values[CHOOSE i \in DOMAIN values :
                   /\ values[i].k = "raise"
                   /\ \A j \in DOMAIN values : values[j].k = "raise" => i <= j]
    ELSE Absent

IssueGet(id, status) == [method |-> "GET", path |-> "issue", id |-> id, status |-> status]

\* The placeholder record of a failed fetch, as a plausible slip would build it:
\* the status code left out of the title.
ErrorDetailNoCode(tool, jira_id, status) ==
    Detail(tool, jira_id, JStr(<<"(", "E", "r", "r", "o", "r", ")">>), EM_DASH, EM_DASH, EM_DASH, EM_DASH, EM_DASH)

\* The placeholder record of a failed fetch (status != 200)
ErrorDetail(tool, jira_id, status) ==
    Detail(tool, jira_id, ErrorTitle(status), EM_DASH, EM_DASH, EM_DASH, EM_DASH, EM_DASH)

\* get_jira_details(jira_id) of a detail tool, given the environment and the
\* tracker's answer [status, fields]: [ret: the record or the exception, reqs: the
\* requests issued].
GetJiraDetails(tool, env, jira_id, resp) ==
    IF ConfigMissing(env)
    THEN [ret |-> Raise(IF tool = "jira_changelog_processor" THEN "EnvironmentError"
                        ELSE "ValueError"),
          reqs |-> <<>>]
    ELSE IF resp.status # 200
    THEN [ret |-> ErrorDetail(tool, jira_id, resp.status),
          reqs |-> <<IssueGet(jira_id, resp.status)>>]
    ELSE LET f == resp.fields
             title == GetOr(f.summary, EM_DASH)
             status == NameOf(f.status)
             type == IF HasType(tool) THEN NameOf(f.issuetype) ELSE Absent
             pre == NoteOf(f.customfield_10131)
             post == NoteOf(f.customfield_10096)
             flag == IF HasFlag(tool) THEN IncludeFlag(f.customfield_10053) ELSE Absent
             exc == FirstRaise(<<status, type, pre, post, flag>>)
         IN  [ret |-> IF exc # Absent THEN exc
                      ELSE Detail(tool, jira_id, title, status, type, pre, post, flag),
              reqs |-> <<IssueGet(jira_id, resp.status)>>]

\* fetch_jira_title(jira_id) of the title-only tool: no check of the environment.
\* requests raises MissingSchema, before any network access, for the URL
\* "None/rest/api/3/issue/.." of an unset JIRA_URL; a None in auth is sent as "None".
FetchJiraTitle(env, jira_id, resp) ==
    IF ~env.JIRA_URL THEN [ret |-> Raise("MissingSchema"), reqs |-> <<>>]
    ELSE [ret |-> IF resp.status # 200 THEN JNull
                  ELSE IF resp.fields.summary = Absent THEN Raise("KeyError")
                  ELSE resp.fields.summary,
          reqs |-> <<IssueGet(jira_id, resp.status)>>]

DetailTools == Tools \ {"extract_jira_titles"}

BUG == <<"B", "u", "g">>
TASK == <<"T", "a", "s", "k">>
SomeId == ESS \o <<"-", "1", "2", "3">>

\* The answers of the tracker to the read of an issue, in the model.
NoteValues == {Absent, JNull,
               JDict(JStr(DOC), Absent, JList(<<JDict(JStr(TEXT), JStr(<<"A">>), Absent)>>)),
               JDict(JStr(DOC), Absent, JList(<<>>))}
FlagValues == {Absent, JNull, JStr(<<"Y">>), JNum,
               ValueObj(JStr(<<"Y">>)), ValueObj(Absent), ValueObj(JNull)}
FieldsValues ==
    {Fields(sm, st, ty, pre, Absent, fl) :
        sm \in {Absent, JStr(<<"T">>)},
        st \in {Absent, NameObj(JStr(<<"O">>)), NameObj(Absent)},
        ty \in {Absent, NameObj(JStr(BUG))},
        pre \in NoteValues,
        fl \in FlagValues}
NoFields == Fields(Absent, Absent, Absent, Absent, Absent, Absent)
FailureStatuses == {404, 500}
IssueResponses ==
    {[status |-> 200, fields |-> f] : f \in FieldsValues}
    \cup {[status |-> st, fields |-> NoFields] : st \in FailureStatuses}

NoFetch == [pc |-> "off", tool |-> "none", env |-> FullEnv, resp |-> [status |-> 0, fields |-> NoFields],
            ret |-> Absent, reqs |-> <<>>]

\* One call of get_jira_details.
CallGetJiraDetails ==
    /\ fetch.pc = "call"
    /\ LET r == GetJiraDetails(fetch.tool, fetch.env, SomeId, fetch.resp)
       IN  fetch' = [fetch EXCEPT !.pc = "ret", !.ret = r.ret, !.reqs = r.reqs]

(***************************************************************************)
(* Issue updater: update_jira_delivery_and_status (parse2.py)               *)
(***************************************************************************)
LowerOf == [c \in UpperLetters |->
    CASE c = "A" -> "a" [] c = "B" -> "b" [] c = "C" -> "c" [] c = "D" -> "d"
      [] c = "E" -> "e" [] c = "F" -> "f" [] c = "G" -> "g" [] c = "H" -> "h"
      [] c = "I" -> "i" [] c = "J" -> "j" [] c = "K" -> "k" [] c = "L" -> "l"
      [] c = "M" -> "m" [] c = "N" -> "n" [] c = "O" -> "o" [] c = "P" -> "p"
      [] c = "Q" -> "q" [] c = "R" -> "r" [] c = "S" -> "s" [] c = "T" -> "t"
      [] c = "U" -> "u" [] c = "V" -> "v" [] c = "W" -> "w" [] c = "X" -> "x"
      [] c = "Y" -> "y" [] c = "Z" -> "z"]

\* str.lower()
Lower(chars) == [i \in DOMAIN chars |-> IF chars[i] \in UpperLetters THEN LowerOf[chars[i]]
                                         ELSE chars[i]]

LOWER_BUG == <<"b", "u", "g">>
LOWER_READY == <<"r", "e", "a", "d", "y", " ", "f", "o", "r", " ", "v", "e", "r", "i", "f", "i", "c", "a", "t", "i", "o", "n">>
READY == <<"R", "e", "a", "d", "y", " ", "f", "o", "r", " ", "V", "e", "r", "i", "f", "i", "c", "a", "t", "i", "o", "n">>
UPPER_READY == <<"R", "E", "A", "D", "Y", " ", "F", "O", "R", " ", "V", "E", "R", "I", "F", "I", "C", "A", "T", "I", "O", "N">>
DONE == <<"D", "o", "n", "e">>
VERSION == "1.2.3"

\* The calls the updater makes to the tracker
PutVersion(id, version, status) ==
    [method |-> "PUT", path |-> "issue", id |-> id, status |-> status,
     body |-> [customfield_10097 |-> version]]
GetTransitions(id, status) ==
    [method |-> "GET", path |-> "transitions", id |-> id, status |-> status]
PostTransition(id, transition_id, status) ==
    [method |-> "POST", path |-> "transitions", id |-> id, status |-> status,
     body |-> [transition |-> transition_id]]

\* A plausible slip: the type compared as written, without lower().
IsBugExact(issue_type) == issue_type.s = BUG

\* A plausible slip: every type but "task" is transitioned.
IsNotTask(issue_type) == Lower(issue_type.s) # Lower(TASK)

\* issue_type.lower() != "bug", negated
IsBug(issue_type) == Lower(issue_type.s) = LOWER_BUG

\* next((t for t in transitions if t["name"].lower() == "ready for verification"),
\*      None): the position of the first such transition, 0 for None
TargetTransition(transitions) ==
    LET hits == {i \in DOMAIN transitions : Lower(transitions[i].name) = LOWER_READY}
    IN  IF hits = {} THEN 0 ELSE CHOOSE i \in hits : \A j \in hits : i <= j

\* A plausible slip: response.raise_for_status() after the PUT, so that a failed
\* write ends the call with an exception.
UpdateJiraRaisingOnPut(env, jira_id, version, issue_type, srv) ==
    IF ConfigMissing(env) THEN [ret |-> Raise("ValueError"), reqs |-> <<>>, warned |-> <<>>]
    ELSE
    LET put == <<PutVersion(jira_id, version, srv.put)>>
        list == <<GetTransitions(jira_id, srv.get)>>
        t == TargetTransition(srv.transitions)
    IN  IF srv.put \notin {200, 204}
        THEN [ret |-> Raise("HTTPError"), reqs |-> put, warned |-> <<>>]
        ELSE IF issue_type.k # "str"
        THEN [ret |-> Raise("AttributeError"), reqs |-> put, warned |-> <<>>]
        ELSE IF ~IsBug(issue_type)
        THEN [ret |-> JNull, reqs |-> put, warned |-> <<>>]
        ELSE IF srv.get # 200
        THEN [ret |-> JNull, reqs |-> put \o list, warned |-> <<"no transitions">>]
        ELSE IF t = 0
        THEN [ret |-> JNull, reqs |-> put \o list, warned |-> <<"no target">>]
        ELSE [ret |-> JNull,
              reqs |-> put \o list
                       \o <<PostTransition(jira_id, srv.transitions[t].id, srv.post)>>,
              warned |-> IF srv.post \notin {200, 204} THEN <<"transition failed">>
                         ELSE <<>>]

\* update_jira_delivery_and_status(jira_id, version, issue_type), given the
\* environment and the tracker's answers srv = [put, get, transitions, post];
\* issue_type is the value of the detail record's "type", None included:
\* [ret: None or the exception, reqs: the requests issued, warned: the warnings].
UpdateJira(env, jira_id, version, issue_type, srv) ==
    IF ConfigMissing(env) THEN [ret |-> Raise("ValueError"), reqs |-> <<>>, warned |-> <<>>]
    ELSE
    LET put == <<PutVersion(jira_id, version, srv.put)>>
        w1 == IF srv.put \notin {200, 204} THEN <<"put failed">> ELSE <<>>
        list == <<GetTransitions(jira_id, srv.get)>>
        t == TargetTransition(srv.transitions)
    IN  IF issue_type.k # "str"
        THEN [ret |-> Raise("AttributeError"), reqs |-> put, warned |-> w1]
        ELSE IF ~IsBug(issue_type)
        THEN [ret |-> JNull, reqs |-> put, warned |-> w1]
        ELSE IF srv.get # 200
        THEN [ret |-> JNull, reqs |-> put \o list, warned |-> w1 \o <<"no transitions">>]
        ELSE IF t = 0
        THEN [ret |-> JNull, reqs |-> put \o list, warned |-> w1 \o <<"no target">>]
        ELSE [ret |-> JNull,
              reqs |-> put \o list
                       \o <<PostTransition(jira_id, srv.transitions[t].id, srv.post)>>,
              warned |-> w1 \o (IF srv.post \notin {200, 204} THEN <<"transition failed">>
                                ELSE <<>>)]

\* The arguments and answers of the model.
IssueTypes ==
    {JStr(t) : t \in {BUG, LOWER_BUG, <<"B", "U", "G">>, <<"b", "U", "g">>, TASK, <<"S", "t", "o", "r", "y">>, <<"B", "u", "g", "s">>}}
    \cup {EM_DASH, JNull}
TransitionChoices == {[id |-> "11", name |-> READY], [id |-> "21", name |-> UPPER_READY],
                      [id |-> "31", name |-> DONE], [id |-> "41", name |-> LOWER_READY]}
TransitionLists == UNION {[1..n -> TransitionChoices] : n \in 0..MaxTransitions}
PutStatuses == {200, 204, 400}
GetStatuses == {200, 404}
PostStatuses == {204, 400}
TrackerAnswers ==
    [put : PutStatuses, get : GetStatuses, transitions : TransitionLists, post : PostStatuses]

NoUpdate == [pc |-> "off", env |-> FullEnv, issue_type |-> JNull,
             srv |-> [put |-> 0, get |-> 0, transitions |-> <<>>, post |-> 0],
             ret |-> Absent, reqs |-> <<>>, warned |-> <<>>]

\* One call of update_jira_delivery_and_status, the tracker answering each request.
CallUpdateJira ==
    /\ upd.pc = "call"
    /\ \E srv \in TrackerAnswers :
          LET r == UpdateJira(upd.env, SomeId, VERSION, upd.issue_type, srv)
          IN  upd' = [upd EXCEPT !.pc = "ret", !.srv = srv, !.ret = r.ret,
                                 !.reqs = r.reqs, !.warned = r.warned]

(***************************************************************************)
(* Changelog processing orchestrators: main() of extract_jira_titles.py,     *)
(* parse_jira_titles.py, jira_changelog_processor.py and parse2.py           *)
(***************************************************************************)
\* The characters of a reference code in code point order
CharsInOrder == <<"-", "0", "1", "2", "3", "4", "5", "6", "7", "8", "9",
                  "A", "B", "C", "D", "E", "F", "G", "H", "I", "J", "K", "L", "M",
                  "N", "O", "P", "Q", "R", "S", "T", "U", "V", "W", "X", "Y", "Z",
                  "_",
                  "a", "b", "c", "d", "e", "f", "g", "h", "i", "j", "k", "l", "m",
                  "n", "o", "p", "q", "r", "s", "t", "u", "v", "w", "x", "y", "z">>
CodeRank(c) == CHOOSE i \in DOMAIN CharsInOrder : CharsInOrder[i] = c

RECURSIVE LexLess(_, _)
\* a < b of two str
LexLess(a, b) ==
    IF a = <<>> THEN b # <<>>
    ELSE IF b = <<>> THEN FALSE
    ELSE IF Head(a) = Head(b) THEN LexLess(Tail(a), Tail(b))
    ELSE CodeRank(Head(a)) < CodeRank(Head(b))

RECURSIVE SortedIdsDescending(_)
\* A plausible slip: the batch taken in descending order.
SortedIdsDescending(ids) ==
    IF ids = {} THEN <<>>
    ELSE LET m == CHOOSE x \in ids : \A y \in ids \ {x} : LexLess(y, x)
         IN  <<m>> \o SortedIdsDescending(ids \ {m})

RECURSIVE SortedIds(_)
\* sorted(ids) of a set of str
SortedIds(ids) ==
    IF ids = {} THEN <<>>
    ELSE LET m == CHOOSE x \in ids : \A y \in ids \ {x} : LexLess(x, y)
         IN  <<m>> \o SortedIds(ids \ {m})

\* The changelog files of the model
ONE_REF == <<"E", "S", "S", "-", "1", "2", "3">>
TWO_REFS == <<"N", "M", "S", "-", "4", "5", "6", "7", " ", "E", "S", "S", "-", "1", "2", "3">>
NO_REF == <<"D", "O", "P", "S", "-", "1", "2", " ", "f", "i", "x">>
\* fault: "read" when open() or the read raises (a directory, no permission, bytes
\* that do not decode), "parse" when json.load raises on the content
MissingFile == [exists |-> FALSE, ext |-> "txt", text |-> <<>>, fault |-> "none"]
ChangelogFile(ext, text) == [exists |-> TRUE, ext |-> ext, text |-> text, fault |-> "none"]
UnreadableFile == [exists |-> TRUE, ext |-> "txt", text |-> ONE_REF, fault |-> "read"]
MalformedJsonFile == [exists |-> TRUE, ext |-> "json", text |-> ONE_REF, fault |-> "parse"]
\* ReleaseNotes/changelog-*.txt as os.listdir gives them
ListedFiles == {ChangelogFile("txt", t) : t \in {ONE_REF, TWO_REFS, NO_REF}}
               \cup {UnreadableFile}
\* the paths given with --changelogs
GivenFiles == ListedFiles \cup {MissingFile, ChangelogFile("json", ONE_REF),
                                ChangelogFile("md", ONE_REF), MalformedJsonFile}
FilesOf(tool) == IF tool = "extract_jira_titles" THEN ListedFiles ELSE GivenFiles

FILE_ERROR == Raise("OSError")

\* The file makes the tool's extractor raise: jira_changelog_processor.py catches
\* every exception of the read, the other tools have no handler and only open()
\* and the read of the lines can raise.
ReadRaises(tool, cf) ==
    cf.exists /\ tool # "jira_changelog_processor" /\ cf.fault = "read"

\* extract_jira_ids_from_file(file) / extract_jira_ids(f.read()) of a file that
\* exists and does not make the extractor raise
FileIds(tool, cf) ==
    IF tool = "jira_changelog_processor"
       /\ (cf.fault = "read" \/ (cf.fault = "parse" /\ cf.ext = "json"))
    THEN {}
    ELSE ExtractJiraIds(tool, cf.ext, cf.text)

\* jira_ids of main() / parse_changelog_files: the files that do not exist skipped
AllIds(tool, files) ==
    UNION {FileIds(tool, files[n]) : n \in {m \in DOMAIN files : files[m].exists}}

\* The output files
COULD_NOT_FETCH == JStr(<<"WARNING SIGN", " ">> \o <<"C", "o", "u", "l", "d", " ", "n", "o", "t", " ", "f", "e", "t", "c", "h", " ", "t", "i", "t", "l", "e">>)
NO_ISSUES_LINE == <<"-", " ", "N", "o", " ", "J", "i", "r", "a", " ", "i", "s", "s", "u", "e", "s", " ", "f", "o", "u", "n", "d", ".">>
NO_ISSUES_IN_CHANGELOGS == <<"_", "N", "o", " ", "J", "i", "r", "a", " ", "i", "s", "s", "u", "e", "s", " ", "f", "o", "u", "n", "d", " ", "i", "n", " ", "c", "h", "a", "n", "g", "e", "l", "o", "g", "s", ".", "_">>
\* out.write(f"- {jid}: {title}\n") / out.write(f"- {jid}: ⚠️ Could not fetch title\n")
TitleRow(jid, title) ==
    [jira |-> jid,
     title |-> IF title.k = "str" /\ title.s # <<>> THEN title ELSE COULD_NOT_FETCH]
OpenedOutput == [placeholder |-> <<>>, rows |-> <<>>, closed |-> FALSE]
PlaceholderOutput(line) == [placeholder |-> line, rows |-> <<>>, closed |-> TRUE]
\* write_markdown_table(details_list, output_file)
WriteMarkdownTable(details_list) ==
    [placeholder |-> <<>>, rows |-> details_list, closed |-> TRUE]

\* sys.exit(0), the return of main(), or the traceback of an uncaught exception
ExitCode(code) == [k |-> "exit", code |-> code]

\* The answers of the tracker in a run
GoodFields(type) ==
    Fields(JStr(<<"T">>), NameObj(JStr(<<"O">>)), NameObj(type), Absent, Absent,
           ValueObj(JStr(<<"Y">>)))
RunResponses ==
    {[status |-> 200, fields |-> GoodFields(JStr(BUG))],
     [status |-> 200, fields |-> GoodFields(JStr(TASK))],
     [status |-> 200, fields |-> GoodFields(JNull)],
     [status |-> 200, fields |-> NoFields]}
    \cup {[status |-> st, fields |-> NoFields] : st \in FailureStatuses}
RunAnswers ==
    [put : {204, 400}, get : {200, 404},
     transitions : {<<>>, <<[id |-> "11", name |-> READY]>>}, post : {204, 400}]

NoJob == [pc |-> "off", tool |-> "none", env |-> FullEnv, files |-> <<>>, f |-> 0,
          ids |-> <<>>, i |-> 0, details |-> <<>>, reqs |-> <<>>, log |-> <<>>,
          outs |-> <<>>, exit |-> Absent]

\* The position after the reference i of the batch
AfterRef(j) ==
    IF j.i < Len(j.ids) THEN [j EXCEPT !.i = j.i + 1, !.pc = "fetch"]
    ELSE [j EXCEPT !.i = j.i + 1, !.pc = "write"]

Aborted(j, exc) == [j EXCEPT !.pc = "done", !.exit = exc]

\* main() of a detail tool up to the first fetch: the references of all files,
\* sorted, unless the read of a file raises; none found: the placeholder file (parse tools) or nothing, and exit 0.
Discover ==
    /\ job.pc = "start"
    /\ job.tool \in DetailTools
    /\ LET ids == SortedIds(AllIds(job.tool, job.files))
       IN  job' = IF \E n \in DOMAIN job.files : ReadRaises(job.tool, job.files[n])
                  THEN Aborted(job, FILE_ERROR)
                  ELSE IF ids # <<>> THEN [job EXCEPT !.pc = "fetch", !.ids = ids, !.i = 1]
                  ELSE [job EXCEPT !.pc = "done", !.exit = ExitCode(0),
                                   !.outs = IF job.tool = "jira_changelog_processor"
                                            THEN <<>>
                                            ELSE <<PlaceholderOutput(NO_ISSUES_IN_CHANGELOGS)>>]

\* get_jira_details(jira_id) of the next reference, the tracker answering the read
FetchOne ==
    /\ job.pc = "fetch"
    /\ job.tool \in DetailTools
    /\ \E resp \in RunResponses :
          LET id == job.ids[job.i]
              r == GetJiraDetails(job.tool, job.env, id, resp)
              j1 == [job EXCEPT !.reqs = job.reqs \o r.reqs]
              j2 == [j1 EXCEPT !.details = Append(job.details, r.ret),
                               !.log = Append(job.log,
                                   [jira |-> id, status |-> resp.status, ret |-> r.ret])]
          IN  job' = IF r.ret.k = "raise" THEN Aborted(j1, r.ret)
                     ELSE IF job.tool = "parse2" THEN [j2 EXCEPT !.pc = "update"]
                     ELSE AfterRef(j2)

\* update_jira_delivery_and_status(jira_id, args.version, details["type"])
Update ==
    /\ job.pc = "update"
    /\ \E srv \in RunAnswers :
          LET id == job.ids[job.i]
              u == UpdateJira(job.env, id, VERSION, job.details[job.i].type, srv)
              j1 == [job EXCEPT !.reqs = job.reqs \o u.reqs]
          IN  job' = IF u.ret.k = "raise" THEN Aborted(j1, u.ret) ELSE AfterRef(j1)

\* write_markdown_table(details_list, args.output) and the return of main()
Write ==
    /\ job.pc = "write"
    /\ job.tool \in DetailTools
    /\ job' = [job EXCEPT !.pc = "done", !.exit = ExitCode(0),
                          !.outs = <<WriteMarkdownTable(job.details)>>]

\* The position after the file f of the title-only tool
AfterFile(j) ==
    IF j.f < Len(j.files) THEN [j EXCEPT !.f = j.f + 1, !.pc = "start"]
    ELSE [j EXCEPT !.f = j.f + 1, !.pc = "done", !.exit = ExitCode(0)]

\* process_changelog_file up to the first fetch: the input read (the exception of
\* the read ends the run before the output is opened), the output opened for writing, the placeholder written when there is no reference.
OpenFile ==
    /\ job.pc = "start"
    /\ job.tool = "extract_jira_titles"
    /\ LET file_f == job.files[job.f]
           ids == SortedIds(FileIds(job.tool, file_f))
       IN  job' = IF ReadRaises(job.tool, file_f) THEN Aborted(job, FILE_ERROR)
                  ELSE IF ids = <<>>
                  THEN AfterFile([job EXCEPT !.ids = ids, !.i = 0,
                                     !.outs = Append(job.outs,
                                                     PlaceholderOutput(NO_ISSUES_LINE))])
                  ELSE [job EXCEPT !.pc = "fetch", !.ids = ids, !.i = 1,
                                   !.outs = Append(job.outs, OpenedOutput)]

\* fetch_jira_title(jid) of the next reference and the row written for it; the
\* output is closed after the last row, and by an exception.
FetchTitle ==
    /\ job.pc = "fetch"
    /\ job.tool = "extract_jira_titles"
    /\ \E resp \in RunResponses :
          LET id == job.ids[job.i]
              r == FetchJiraTitle(job.env, id, resp)
              j1 == [job EXCEPT !.reqs = job.reqs \o r.reqs]
              j2 == [j1 EXCEPT !.outs[job.f].rows = Append(@, TitleRow(id, r.ret)),
                               !.log = Append(job.log,
                                   [jira |-> id, status |-> resp.status, ret |-> r.ret])]
          IN  job' = IF r.ret.k = "raise"
                     THEN Aborted([j1 EXCEPT !.outs[job.f].closed = TRUE], r.ret)
                     ELSE IF job.i < Len(job.ids) THEN [j2 EXCEPT !.i = job.i + 1]
                     ELSE AfterFile([j2 EXCEPT !.i = job.i + 1, !.outs[job.f].closed = TRUE])

(***************************************************************************)
(* Manifest tools: parse_required_files.py, parse_yaml.py and                *)
(* generate_component_table.py                                               *)
(***************************************************************************)
REQUIRE_FILES == <<"r", "e", "q", "u", "i", "r", "e", "_", "f", "i", "l", "e", "s">>
N_A == JStr(<<"N", "/", "A">>)

\* The input path: no file, a file yaml.safe_load rejects, or the value loaded
YamlAbsent == [k |-> "nofile"]
YamlMalformed == [k |-> "malformed"]
YamlDoc(data) == [k |-> "doc", data |-> data]
\* A mapping, its keys in the order of the document
YMap(entries) == [k |-> "map", entries |-> entries]
Entry(key, value) == [key |-> key, value |-> value]
\* An entry of require_files: each key a value or Absent
PackageItem(package, version, name) ==
    [k |-> "dict", package |-> package, version |-> version, name |-> name]

\* data.get(key, default): AttributeError when data is not a mapping
DataGet(data, key, default) ==
    IF data.k # "map" THEN Raise("AttributeError")
    ELSE LET hits == {n \in DOMAIN data.entries : data.entries[n].key = key}
         IN  IF hits = {} THEN default ELSE data.entries[CHOOSE n \in hits : TRUE].value

\* not value, of a value loaded from YAML
Falsy(value) == value = JNull \/ value = JList(<<>>) \/ value = JStr(<<>>)

\* load_yaml(file_path) of parse_required_files.py: [data, log]
LoadYaml(doc) ==
    IF doc = YamlAbsent THEN [data |-> JNull, log |-> <<"ERROR: YAML file not found">>]
    ELSE IF doc = YamlMalformed
    THEN [data |-> JNull, log |-> <<"ERROR: Error parsing YAML file">>]
    ELSE [data |-> doc.data, log |-> <<>>]

\* with open(path) as f: data = yaml.safe_load(f), with no handler
SafeLoad(doc) ==
    IF doc = YamlAbsent THEN Raise("FileNotFoundError")
    ELSE IF doc = YamlMalformed THEN Raise("YAMLError")
    ELSE doc.data

\* The row of an item: item.get('package', 'N/A') ..; AttributeError when the item is
\* not a mapping
RowOf(item) ==
    IF item.k # "dict" THEN Raise("AttributeError")
    ELSE [k |-> "row", package |-> GetOr(item.package, N_A),
          version |-> GetOr(item.version, N_A), name |-> GetOr(item.name, N_A)]

\* The rows written before the first item that raises, and that exception if any;
\* TypeError when require_files cannot be iterated
RowsOf(require_files) ==
    IF require_files.k # "list" THEN [rows |-> <<>>, exc |-> Raise("TypeError")]
    ELSE LET items == require_files.items
             bad == {n \in DOMAIN items : RowOf(items[n]).k = "raise"}
             stop == IF bad = {} THEN Len(items) + 1
                     ELSE CHOOSE n \in bad : \A m \in bad : n <= m
         IN  [rows |-> [n \in 1..(stop - 1) |-> RowOf(items[n])],
              exc |-> IF bad = {} THEN Absent ELSE RowOf(items[stop])]

\* The file system: the output directory and the output file
OutputFile(heading, rows, closed) ==
    [k |-> "file", old |-> FALSE, heading |-> heading, rows |-> rows, closed |-> closed]
OldOutput == [k |-> "file", old |-> TRUE, heading |-> FALSE, rows |-> <<>>, closed |-> TRUE]
FileSystems == [dir : BOOLEAN, out : {Absent, OldOutput}] \ {[dir |-> FALSE, out |-> OldOutput]}

\* main(input_file, output_file) of parse_required_files.py: [fs, log, stdout, exit]
PackageSummaryMain(doc, fs) ==
    LET loaded == LoadYaml(doc)
        data == loaded.data
        require_files == DataGet(data, REQUIRE_FILES, JList(<<>>))
        made == RowsOf(require_files)
    IN  IF data = JNull
        THEN [fs |-> fs, log |-> loaded.log \o <<"ERROR: Failed to load YAML data. Exiting.">>,
              stdout |-> <<>>, exit |-> ExitCode(0)]
        ELSE IF require_files.k = "raise"
        THEN [fs |-> fs, log |-> <<>>, stdout |-> <<>>, exit |-> require_files]
        ELSE IF Falsy(require_files)
        THEN [fs |-> fs, log |-> <<"WARNING: No 'require_files' section found or it's empty">>,
              stdout |-> <<>>, exit |-> ExitCode(0)]
        ELSE IF made.exc # Absent
        THEN [fs |-> [fs EXCEPT !.dir = TRUE], log |-> <<>>, stdout |-> <<>>,
              exit |-> made.exc]
        ELSE [fs |-> [dir |-> TRUE, out |-> OutputFile(FALSE, made.rows, TRUE)],
              log |-> <<"INFO: Package summary successfully written">>,
              stdout |-> <<>>, exit |-> ExitCode(0)]

\* The script parse_yaml.py: the output is opened and its head written before the
\* items are iterated, so an exception of the loop leaves the table unclosed.
ParseYamlScript(doc, fs) ==
    LET data == SafeLoad(doc)
        require_files == IF data.k = "raise" THEN data
                         ELSE DataGet(data, REQUIRE_FILES, JList(<<>>))
        made == RowsOf(require_files)
    IN  IF require_files.k = "raise"
        THEN [fs |-> fs, log |-> <<"Traceback">>, stdout |-> <<>>, exit |-> require_files]
        ELSE IF made.exc # Absent
        THEN [fs |-> [dir |-> TRUE, out |-> OutputFile(TRUE, made.rows, FALSE)],
              log |-> <<"Traceback">>, stdout |-> <<>>, exit |-> made.exc]
        ELSE [fs |-> [dir |-> TRUE, out |-> OutputFile(TRUE, made.rows, TRUE)],
              log |-> <<>>, stdout |-> <<>>, exit |-> ExitCode(0)]

RECURSIVE ReplaceAll(_, _, _)
\* str.replace(old, new)
ReplaceAll(str, old, new) ==
    IF str = <<>> THEN <<>>
    ELSE IF HasAt(str, 1, old)
    THEN new \o ReplaceAll(SubSeq(str, Len(old) + 1, Len(str)), old, new)
    ELSE <<Head(str)>> \o ReplaceAll(Tail(str), old, new)

UpperOf(c) == CHOOSE u \in UpperLetters : LowerOf[u] = c
IsLetter(c) == c \in UpperLetters \cup LowerLetters
\* str.title()
Title(str) ==
    [n \in DOMAIN str |->
        IF ~IsLetter(str[n]) THEN str[n]
        ELSE IF n = 1 \/ ~IsLetter(str[n - 1])
        THEN (IF str[n] \in LowerLetters THEN UpperOf(str[n]) ELSE str[n])
        ELSE (IF str[n] \in UpperLetters THEN LowerOf[str[n]] ELSE str[n])]

\* key.replace("nms_", "").replace("_version", "").replace("_", " ").title()
ComponentName(key) ==
    Title(ReplaceAll(ReplaceAll(ReplaceAll(key, <<"n", "m", "s", "_">>, <<>>), <<"_", "v", "e", "r", "s", "i", "o", "n">>, <<>>),
                     <<"_">>, <<" ">>))

RECURSIVE SortedEntries(_)
\* sorted(data.items()) of a mapping with str keys
SortedEntries(entries) ==
    IF entries = {} THEN <<>>
    ELSE LET m == CHOOSE x \in entries : \A y \in entries \ {x} : LexLess(x.key, y.key)
         IN  <<m>> \o SortedEntries(entries \ {m})

\* generate_component_table.py <yaml_file>: the usage error, or generate_table and
\* the print of the table
ComponentTableMain(args_ok, doc, fs) ==
    LET data == SafeLoad(doc)
        sorted == SortedEntries({data.entries[n] : n \in DOMAIN data.entries})
    IN  IF ~args_ok
        THEN [fs |-> fs, log |-> <<>>, stdout |-> <<"Usage">>, exit |-> ExitCode(1)]
        ELSE IF data.k = "raise"
        THEN [fs |-> fs, log |-> <<"Traceback">>, stdout |-> <<>>, exit |-> data]
        ELSE IF data.k # "map"
        THEN [fs |-> fs, log |-> <<"Traceback">>, stdout |-> <<>>,
              exit |-> Raise("AttributeError")]
        ELSE [fs |-> fs, log |-> <<>>,
              stdout |-> [n \in DOMAIN sorted |->
                             [component |-> ComponentName(sorted[n].key),
                              version |-> sorted[n].value]],
              exit |-> ExitCode(0)]

\* The manifests of the model
ManifestTools == {"parse_required_files", "parse_yaml", "generate_component_table"}
PackageItems == {PackageItem(JStr(<<"f">>), JStr(<<"1">>), JStr(<<"p">>)),
                 PackageItem(JStr(<<"f">>), JStr(<<"1">>), Absent),
                 JStr(<<"f">>)}
RequireFilesValues ==
    {JNull, JStr(<<"f">>)} \cup {JList(q) : q \in UNION {[1..n -> PackageItems] : n \in 0..MaxItems}}
PackageDocs ==
    {YamlAbsent, YamlMalformed, YamlDoc(JNull), YamlDoc(JList(<<>>)), YamlDoc(YMap(<<>>))}
    \cup {YamlDoc(YMap(<<Entry(REQUIRE_FILES, v)>>)) : v \in RequireFilesValues}
NMS_CORE_VERSION == <<"n", "m", "s", "_", "c", "o", "r", "e", "_", "v", "e", "r", "s", "i", "o", "n">>
WEB_UI_VERSION == <<"w", "e", "b", "_", "u", "i", "_", "v", "e", "r", "s", "i", "o", "n">>
ComponentEntries == {Entry(NMS_CORE_VERSION, JStr(<<"1">>)), Entry(WEB_UI_VERSION, JStr(<<"2">>)),
                     Entry(<<"d", "b">>, JStr(<<"3">>))}
ComponentDocs ==
    {YamlAbsent, YamlMalformed, YamlDoc(JNull), YamlDoc(JList(<<>>)), YamlDoc(YMap(<<>>))}
    \cup {YamlDoc(YMap(<<a>>)) : a \in ComponentEntries}
    \cup {YamlDoc(YMap(<<ab[1], ab[2]>>)) :
             ab \in {e \in ComponentEntries \X ComponentEntries : e[1] # e[2]}}
DocsOf(tool) == IF tool = "generate_component_table" THEN ComponentDocs ELSE PackageDocs

NoManifestRun == [pc |-> "off", tool |-> "none", args_ok |-> TRUE, doc |-> YamlAbsent,
                  fs0 |-> [dir |-> FALSE, out |-> Absent],
                  fs |-> [dir |-> FALSE, out |-> Absent],
                  log |-> <<>>, stdout |-> <<>>, exit |-> Absent]

Ended(r) == [mf EXCEPT !.pc = "done", !.fs = r.fs, !.log = r.log, !.stdout = r.stdout,
                       !.exit = r.exit]

\* One run of parse_required_files.py
RunPackageSummary ==
    /\ mf.pc = "start" /\ mf.tool = "parse_required_files"
    /\ mf' = Ended(PackageSummaryMain(mf.doc, mf.fs))

\* One run of parse_yaml.py
RunParseYaml ==
    /\ mf.pc = "start" /\ mf.tool = "parse_yaml"
    /\ mf' = Ended(ParseYamlScript(mf.doc, mf.fs))

\* One run of generate_component_table.py
RunComponentTable ==
    /\ mf.pc = "start" /\ mf.tool = "generate_component_table"
    /\ mf' = Ended(ComponentTableMain(mf.args_ok, mf.doc, mf.fs))

(***************************************************************************)
(* Specifications: one per tool family; the variables of the others rest.    *)
(***************************************************************************)
ExtractOff ==
    /\ x_tool = "none"
    /\ x_ext = "none"
    /\ x_text = <<>>
    /\ x_ids = {}
    /\ x_pc = "off"

MonitorOff ==
    /\ remote = EmptySnapshot
    /\ file = NoFile
    /\ run = [p \in Procs |-> IdleRun]
    /\ last = NoRun

AdfOff ==
    /\ a_in = JNull
    /\ a_out = JNull
    /\ a_pc = "off"

FetchOff == fetch = NoFetch

UpdateOff == upd = NoUpdate

JobOff == job = NoJob

ManifestOff == mf = NoManifestRun

MonitorInit ==
    /\ remote \in Snapshots
    /\ file = NoFile
    /\ run = [p \in Procs |-> IdleRun]
    /\ last = NoRun
    /\ ExtractOff /\ AdfOff /\ FetchOff /\ UpdateOff /\ JobOff /\ ManifestOff

\* Serialized runs: one monitor process, one run after the other.
MonitorNext ==
    /\ \/ StartRun(1)
       \/ FetchPage(1)
       \/ LoadState(1)
       \/ Diff(1)
       \/ Save(1)
       \/ RemoteChange
    /\ UNCHANGED <<exVars, adfVars, fetchVars, updVars, jobVars, mfVars>>

MonitorSpec == MonitorInit /\ [][MonitorNext]_vars

\* Overlapping runs: every monitor process starts runs at any time, each of
\* fetch, load, diff and save being a step of its own; nothing serializes them
\* (check_repos.py takes no lock on the state file).
RaceInit ==
    /\ remote \in RaceSnapshots
    /\ file = NoFile
    /\ run = [p \in Procs |-> IdleRun]
    /\ last = NoRun
    /\ ExtractOff /\ AdfOff /\ FetchOff /\ UpdateOff /\ JobOff /\ ManifestOff

RaceNext ==
    /\ \/ \E p \in Procs : StartRun(p)
       \/ \E p \in Procs : FetchPage(p)
       \/ \E p \in Procs : LoadState(p)
       \/ \E p \in Procs : Diff(p)
       \/ \E p \in Procs : Save(p)
       \/ RemoteChangeWithin(RaceSnapshots)
    /\ UNCHANGED <<exVars, adfVars, fetchVars, updVars, jobVars, mfVars>>

RaceSpec == RaceInit /\ [][RaceNext]_vars

ExtractInit ==
    /\ x_tool \in Tools
    /\ x_ext \in IF x_tool = "jira_changelog_processor" THEN {"txt", "json", "md"} ELSE {"txt"}
    /\ x_text \in InputTexts
    /\ x_ids = {}
    /\ x_pc = "call"
    /\ MonitorOff /\ AdfOff /\ FetchOff /\ UpdateOff /\ JobOff /\ ManifestOff

ExtractNext == Extract /\ UNCHANGED <<monVars, adfVars, fetchVars, updVars, jobVars, mfVars>>

ExtractSpec == ExtractInit /\ [][ExtractNext]_vars

AdfInit ==
    /\ a_in \in AdfInputs
    /\ a_out = JNull
    /\ a_pc = "call"
    /\ MonitorOff /\ ExtractOff /\ FetchOff /\ UpdateOff /\ JobOff /\ ManifestOff

AdfNext == Flatten /\ UNCHANGED <<monVars, exVars, fetchVars, updVars, jobVars, mfVars>>

AdfSpec == AdfInit /\ [][AdfNext]_vars

FetchInit ==
    /\ fetch \in {[NoFetch EXCEPT !.pc = "call", !.tool = t, !.env = e, !.resp = r] :
                     t \in DetailTools, e \in Envs, r \in IssueResponses}
    /\ MonitorOff /\ ExtractOff /\ AdfOff /\ UpdateOff /\ JobOff /\ ManifestOff

FetchNext == CallGetJiraDetails /\ UNCHANGED <<monVars, exVars, adfVars, updVars, jobVars, mfVars>>

FetchSpec == FetchInit /\ [][FetchNext]_vars

UpdateInit ==
    /\ upd \in {[NoUpdate EXCEPT !.pc = "call", !.env = e, !.issue_type = t] :
                   e \in Envs, t \in IssueTypes}
    /\ MonitorOff /\ ExtractOff /\ AdfOff /\ FetchOff /\ JobOff /\ ManifestOff

UpdateNext == CallUpdateJira /\ UNCHANGED <<monVars, exVars, adfVars, fetchVars, jobVars, mfVars>>

UpdateSpec == UpdateInit /\ [][UpdateNext]_vars

JobInit ==
    /\ \E t \in Tools, e \in Envs, n \in 1..MaxFiles :
          \E fs \in [1..n -> FilesOf(t)] :
             job = [NoJob EXCEPT !.pc = "start", !.tool = t, !.env = e, !.files = fs,
                                 !.f = IF t = "extract_jira_titles" THEN 1 ELSE 0]
    /\ MonitorOff /\ ExtractOff /\ AdfOff /\ FetchOff /\ UpdateOff /\ ManifestOff

JobNext ==
    /\ \/ Discover
       \/ FetchOne
       \/ Update
       \/ Write
       \/ OpenFile
       \/ FetchTitle
    /\ UNCHANGED <<monVars, exVars, adfVars, fetchVars, updVars, mfVars>>

JobSpec == JobInit /\ [][JobNext]_vars

ManifestInit ==
    /\ \E t \in ManifestTools, fs \in FileSystems :
          \E d \in DocsOf(t), ok \in (IF t = "generate_component_table" THEN BOOLEAN ELSE {TRUE}) :
             mf = [NoManifestRun EXCEPT !.pc = "start", !.tool = t, !.args_ok = ok,
                                        !.doc = d, !.fs0 = fs, !.fs = fs]
    /\ MonitorOff /\ ExtractOff /\ AdfOff /\ FetchOff /\ UpdateOff /\ JobOff

ManifestNext ==
    /\ \/ RunPackageSummary
       \/ RunParseYaml
       \/ RunComponentTable
    /\ UNCHANGED <<monVars, exVars, adfVars, fetchVars, updVars, jobVars>>

ManifestSpec == ManifestInit /\ [][ManifestNext]_vars

(***************************************************************************)
(* Properties of the issue-ID extractor.                                     *)
(***************************************************************************)
AllowList(tool) == IF tool = "extract_jira_titles" THEN {ESS, NMS} ELSE {ESS, NMS, DOPS}

\* t is a reference code: a listed prefix, a hyphen, 3 or 4 digits
IsReference(t, allow) ==
    \E pre \in allow, d \in 3..4 :
        /\ Len(t) = Len(pre) + 1 + d
        /\ SubSeq(t, 1, Len(pre)) = pre
        /\ t[Len(pre) + 1] = "-"
        /\ \A i \in (Len(pre) + 2)..Len(t) : IsDigit(t[i])

\* the reference codes that stand in s between two word boundaries
References(s, allow) ==
    {SubSeq(s, ij[1], ij[2]) : ij \in
        {ij \in (1..Len(s)) \X (1..Len(s)) :
            /\ ij[1] <= ij[2]
            /\ IsReference(SubSeq(s, ij[1], ij[2]), allow)
            /\ WordBoundary(s, ij[1] - 1)
            /\ WordBoundary(s, ij[2])}}

\* the input of the extractor: the text, or the serialized JSON document
ExtractorInput == IF x_ext = "json" THEN JsonDumpsString(x_text) ELSE x_text

\* the references expected of the call: none of a file whose extension is not
\* supported
Expected == IF x_ext \in {"txt", "json"}
            THEN References(ExtractorInput, AllowList(x_tool))
            ELSE {}

\* C5: in every variant the extractor returns exactly the word-bounded substrings
\* of its input made of a prefix of the variant's allow-list, a hyphen and 3 or 4
\* digits, each returned element being the full reference code.
C5_Extraction ==
    x_pc = "ret" => x_ids = Expected

\* The same statement for the three tools that share the pattern with \d{3,4} and a
\* non-capturing group; it holds of them.
C5_DetailTools ==
    (x_pc = "ret" /\ x_tool # "extract_jira_titles") => x_ids = Expected

\* What the title-only tool returns instead: the prefixes of the word-bounded
\* tokens prefix-hyphen-digits, with any number of digits.
C5_TitleToolPrefixes ==
    (x_pc = "ret" /\ x_tool = "extract_jira_titles") =>
        /\ x_ids \subseteq {ESS, NMS}
        /\ \A t \in References(x_text, {ESS, NMS}) : \E pre \in x_ids : HasAt(t, 1, pre)

C5_Witness ==
    /\ x_pc = "ret"
    /\ x_tool = "parse_jira_titles"
    /\ Cardinality(x_ids) = 2

(***************************************************************************)
(* Properties of the rich-text flattener.                                    *)
(***************************************************************************)
RECURSIVE TextOf(_)
\* The text of the reachable nodes of type "text", in document order; a node of any
\* other shape contributes nothing.
TextOf(v) ==
    IF v.k = "dict"
    THEN IF v.type = JStr(TEXT)
         THEN (IF v.text.k = "str" THEN v.text.s ELSE <<>>)
         ELSE IF v.content.k = "list"
         THEN ConcatAll([i \in DOMAIN v.content.items |-> TextOf(v.content.items[i])])
         ELSE <<>>
    ELSE IF v.k = "list"
    THEN ConcatAll([i \in DOMAIN v.items |-> TextOf(v.items[i])])
    ELSE <<>>

\* C6: for every input value the flattener returns, without raising, the string
\* that concatenates the text of the reachable text nodes in document order.
C6_Total ==
    a_pc = "ret" => a_out = JStr(TextOf(a_in))

RECURSIVE WellFormed(_)
\* Documents in which every `content` is a list (or absent) and every text node's
\* `text` is a string (or absent).
WellFormed(v) ==
    IF v.k = "dict"
    THEN /\ v.type = JStr(TEXT) => v.text.k \in {"absent", "str"}
         /\ v.type # JStr(TEXT) =>
               /\ v.content.k \in {"absent", "list"}
               /\ v.content.k = "list" =>
                     \A i \in DOMAIN v.content.items : WellFormed(v.content.items[i])
    ELSE IF v.k = "list" THEN \A i \in DOMAIN v.items : WellFormed(v.items[i])
    ELSE TRUE

\* On well-formed documents the statement of C6 holds.
C6_WellFormedOnly ==
    (a_pc = "ret" /\ WellFormed(a_in)) => a_out = JStr(TextOf(a_in))

C6_Witness ==
    /\ a_pc = "ret"
    /\ a_out = JStr(<<"A", "B">>)

(***************************************************************************)
(* Properties of the issue detail fetcher.                                   *)
(***************************************************************************)
FetchedOk ==
    /\ fetch.pc = "ret"
    /\ HasFlag(fetch.tool)
    /\ ~ConfigMissing(fetch.env)
    /\ fetch.resp.status = 200
    /\ fetch.ret.k # "raise"

\* C9: on a successful fetch the visibility field of the record is the `value` of
\* customfield_10053 when that is a record containing `value`, the em-dash
\* placeholder in every other case, and never null.
C9_Visibility ==
    FetchedOk =>
        LET v == fetch.resp.fields.customfield_10053
            got == fetch.ret.include_in_release_notes
        IN  /\ got = IF v.k = "dict" /\ v.value # Absent THEN v.value ELSE EM_DASH
            /\ got # JNull

\* What the code guarantees: the statement of C9 whenever customfield_10053 is not
\* a record, or is a record with a non-null `value`.
C9_ValuePresentOrNoRecord ==
    FetchedOk =>
        LET v == fetch.resp.fields.customfield_10053
            got == fetch.ret.include_in_release_notes
        IN  /\ v.k # "dict" => got = EM_DASH
            /\ (v.k = "dict" /\ v.value \notin {Absent, JNull}) => got = v.value

C9_Witness ==
    /\ FetchedOk
    /\ fetch.ret.include_in_release_notes = JStr(<<"Y">>)

(***************************************************************************)
(* Properties of the issue updater.                                          *)
(***************************************************************************)
\* The spellings of "bug" in any letter case.
BugSpellings ==
    {<<a, b, c>> : a \in {"b", "B"}, b \in {"u", "U"}, c \in {"g", "G"}}
ReadySpellings == {READY, UPPER_READY, LOWER_READY}

Updated == upd.pc = "ret" /\ ~ConfigMissing(upd.env)
IsBugType == upd.issue_type.k = "str" /\ upd.issue_type.s \in BugSpellings

PutCalls == {i \in DOMAIN upd.reqs : upd.reqs[i].method = "PUT"}
TransitionCalls == {i \in DOMAIN upd.reqs : upd.reqs[i].path = "transitions"}

C10_WitnessTask ==
    /\ Updated
    /\ upd.issue_type = JStr(TASK)
    /\ Len(upd.reqs) = 1

(***************************************************************************)
(* Properties of the orchestrators.                                          *)
(***************************************************************************)
RunEnded == job.pc = "done"
MissingConfigurationError == {Raise("ValueError"), Raise("EnvironmentError")}

\* A run one of whose input files makes the extractor raise
ReadFails == \E n \in DOMAIN job.files : ReadRaises(job.tool, job.files[n])

\* A run that has a reference to fetch
ReferencesFound ==
    \E n \in DOMAIN job.files :
        /\ job.files[n].exists
        /\ FileIds(job.tool, job.files[n]) # {}

\* C7: in every Jira-facing tool, when one of JIRA_URL, JIRA_EMAIL, JIRA_API_TOKEN
\* is absent the run issues no HTTP request to the tracker, and it ends with an
\* error fatal to the process. Read in the code's favour: the error is asked only
\* of a run that has a reference to fetch, and the MissingSchema that requests
\* raises for the address "None/rest/..." counts as the error.
C7_MissingConfigFatal ==
    ConfigMissing(job.env) /\ job.pc # "off" /\ ~ReadFails =>
        /\ job.reqs = <<>>
        /\ RunEnded /\ ReferencesFound =>
              job.exit \in MissingConfigurationError \cup {Raise("MissingSchema")}

\* What the three detail tools do of it: no request is ever issued, and a run that
\* reaches its first fetch ends with the error; a run that finds no reference ends
\* with exit code 0, the configuration never read.
C7_DetailToolsAtFirstFetch ==
    ConfigMissing(job.env) /\ job.tool \in DetailTools =>
        /\ job.reqs = <<>>
        /\ RunEnded =>
              IF ReadFails THEN job.exit = FILE_ERROR
              ELSE IF AllIds(job.tool, job.files) = {} THEN job.exit = ExitCode(0)
              ELSE job.exit \in MissingConfigurationError /\ job.outs = <<>>

\* The title-only tool with the address set and a credential absent: the read of
\* the issue has been issued.
C7_TitleOnlyRequest ==
    /\ job.tool = "extract_jira_titles"
    /\ job.env.JIRA_URL /\ ~job.env.JIRA_EMAIL
    /\ job.reqs # <<>>

\* The title of a placeholder record, spelled out
ERROR_404 == <<"(", "E", "r", "r", "o", "r", " ", "4", "0", "4", ")">>
ERROR_500 == <<"(", "E", "r", "r", "o", "r", " ", "5", "0", "0", ")">>
ExpectedTitle(status) == IF status = 404 THEN JStr(ERROR_404) ELSE JStr(ERROR_500)

\* r is the placeholder detail record of reference id and the status: the code in
\* the title, the em-dash in every field of the tool but the reference.
IsPlaceholderRecord(r, tool, id, status) ==
    /\ r.k = "detail"
    /\ r.jira = id
    /\ r.title = ExpectedTitle(status)
    /\ r.status = EM_DASH /\ r.pre_change = EM_DASH /\ r.post_change = EM_DASH
    /\ r.type = (IF tool = "parse2" THEN EM_DASH ELSE Absent)
    /\ r.include_in_release_notes
         = (IF tool \in {"parse2", "jira_changelog_processor"} THEN EM_DASH ELSE Absent)

FailedFetches == {n \in DOMAIN job.log : job.log[n].status # 200}
IssueReads == {n \in DOMAIN job.reqs : job.reqs[n].method = "GET" /\ job.reqs[n].path = "issue"}
LastIssueRead == job.reqs[CHOOSE n \in IssueReads : \A m \in IssueReads : m <= n]

\* No fetch failure ends the batch: a run ends with an exception only for an input
\* file it cannot read, for missing configuration or on the content of a 200 answer.
NoAbortOnFailure ==
    RunEnded /\ job.exit.k = "raise" /\ job.exit # FILE_ERROR /\ ~ConfigMissing(job.env) =>
        IssueReads # {} /\ LastIssueRead.status = 200

\* The table of a detail tool's run that returned: one row per reference found in
\* the files, in sorted order, the placeholder record where the read failed.
OneRowPerReference ==
    RunEnded /\ job.tool \in DetailTools /\ job.exit = ExitCode(0)
             /\ AllIds(job.tool, job.files) # {} =>
        LET ids == SortedIds(AllIds(job.tool, job.files))
        IN  /\ Len(job.outs) = 1
            /\ Len(job.outs[1].rows) = Len(ids)
            /\ \A n \in DOMAIN ids :
                  /\ job.outs[1].rows[n].jira = ids[n]
                  /\ job.log[n].status # 200 =>
                        IsPlaceholderRecord(job.outs[1].rows[n], job.tool, ids[n],
                                            job.log[n].status)

\* The list of each file the title-only tool has finished: one row per reference
\* found in that file, in sorted order.
OneRowPerReferenceOfFile ==
    job.tool = "extract_jira_titles" =>
        \A n \in DOMAIN job.outs :
            (n < job.f \/ job.exit = ExitCode(0)) =>
                LET ids == SortedIds(FileIds(job.tool, job.files[n]))
                IN  /\ job.outs[n].closed
                    /\ Len(job.outs[n].rows) = Len(ids)
                    /\ \A m \in DOMAIN ids : job.outs[n].rows[m].jira = ids[m]

C8_WitnessTitleOnly ==
    /\ RunEnded /\ job.exit = ExitCode(0)
    /\ job.tool = "extract_jira_titles"
    /\ Len(job.outs) >= 1 /\ Len(job.outs[1].rows) = 2
    /\ job.outs[1].rows[1].title = COULD_NOT_FETCH
    /\ job.outs[1].rows[2].title = JStr(<<"T">>)
    /\ job.log[1].status = 500

(***************************************************************************)
(* Properties of the read+write orchestrator and its updater.                *)
(***************************************************************************)
\* The position of a reference in the sorted batch
IdIndex(id) == CHOOSE n \in DOMAIN job.ids : job.ids[n] = id
PutsOfRun == {n \in DOMAIN job.reqs : job.reqs[n].method = "PUT"}
\* The reference of request n was fetched as a bug
FetchedAsBug(n) ==
    LET d == job.details[IdIndex(job.reqs[n].id)]
    IN  d.type.k = "str" /\ Lower(d.type.s) = LOWER_BUG

\* C11: no answer of the tracker to the PUT, to the GET of the transitions or to the
\* POST, and no list without the target, ends update_jira_delivery_and_status with
\* an exception: the run of the read+write tool ends with an exception only before
\* the first fetch, on an input file, or on the content of a 200 answer to the read
\* of an issue, every reference fetched so far
\* has had its PUT, a failed PUT of a bug is followed by the GET of its
\* transitions, and the run that returns has written one row per reference.
C11_NeverEscalates ==
    job.tool = "parse2" /\ ~ConfigMissing(job.env) =>
        /\ RunEnded /\ job.exit.k = "raise" /\ job.exit # FILE_ERROR =>
              /\ LastIssueRead.status = 200
              /\ \/ Len(job.details) < job.i
                 \/ job.details[job.i].type.k # "str"
        /\ job.pc \in {"fetch", "write"} => Cardinality(PutsOfRun) = job.i - 1
        /\ \A n \in PutsOfRun :
              FetchedAsBug(n) =>
                 /\ n + 1 \in DOMAIN job.reqs
                 /\ job.reqs[n + 1].method = "GET"
                 /\ job.reqs[n + 1].path = "transitions"
                 /\ job.reqs[n + 1].id = job.reqs[n].id
        /\ RunEnded /\ job.exit = ExitCode(0) /\ job.ids # <<>> =>
              /\ Cardinality(PutsOfRun) = Len(job.ids)
              /\ Len(job.outs) = 1 /\ Len(job.outs[1].rows) = Len(job.ids)

\* Two bugs: the PUT and the GET of the first fail, the PUT and the POST of the
\* second fail, and the report is written with both rows.
C11_Witness ==
    /\ job.tool = "parse2" /\ RunEnded /\ job.exit = ExitCode(0)
    /\ Len(job.reqs) = 7
    /\ job.reqs[2].method = "PUT" /\ job.reqs[2].status = 400
    /\ job.reqs[3].method = "GET" /\ job.reqs[3].status = 404
    /\ job.reqs[5].method = "PUT" /\ job.reqs[5].status = 400
    /\ job.reqs[7].method = "POST" /\ job.reqs[7].status = 400
    /\ Len(job.outs[1].rows) = 2

(***************************************************************************)
(* Properties of the order of the fetches.                                   *)
(***************************************************************************)
IsIssueRead(r) == r.method = "GET" /\ r.path = "issue"
\* The references of the reads of an issue, in the order of the requests
FetchedIds == LET reads == SelectSeq(job.reqs, IsIssueRead)
              IN  [n \in DOMAIN reads |-> reads[n].id]
Ascending(ids) == \A n, m \in DOMAIN ids : n < m => LexLess(ids[n], ids[m])
RowIds(out) == [n \in DOMAIN out.rows |-> out.rows[n].jira]
IsPrefix(a, b) == Len(a) <= Len(b) /\ a = SubSeq(b, 1, Len(a))
\* The references of each listed file, sorted, one file after the other
PerFileOrder ==
    ConcatAll([n \in DOMAIN job.files |->
                  SortedIds(FileIds(job.tool, job.files[n]))])

C12_WitnessTitleOnly ==
    /\ job.tool = "extract_jira_titles" /\ RunEnded /\ job.exit = ExitCode(0)
    /\ FetchedIds = <<ESS, NMS, ESS>>

(***************************************************************************)
(* The sequence of calls of the read+write orchestrator.                     *)
(***************************************************************************)
CallKind(r) ==
    IF r.method = "GET" /\ r.path = "issue" THEN "fetch"
    ELSE IF r.method = "PUT" /\ r.path = "issue" THEN "put"
    ELSE IF r.method = "GET" /\ r.path = "transitions" THEN "list"
    ELSE IF r.method = "POST" /\ r.path = "transitions" THEN "post"
    ELSE "other"

KindAt(n) == CallKind(job.reqs[n])
CallsOf(kind, id) ==
    {n \in DOMAIN job.reqs : KindAt(n) = kind /\ job.reqs[n].id = id}
FollowsSameId(n, kind) ==
    n > 1 /\ KindAt(n - 1) = kind /\ job.reqs[n - 1].id = job.reqs[n].id

\* Every request is in its place: a fetch opens a reference, after the calls
\* of the reference before it; the PUT follows the fetch, the GET of the
\* transitions the PUT, the POST a 200 answer to that GET.
CallsInSequence ==
    \A n \in DOMAIN job.reqs :
        /\ KindAt(n) # "other"
        /\ KindAt(n) = "fetch" =>
              /\ n > 1 => /\ KindAt(n - 1) \in {"put", "list", "post"}
                          /\ job.reqs[n - 1].id # job.reqs[n].id
              /\ IF n = Len(job.reqs) THEN job.pc = "update"
                 ELSE KindAt(n + 1) = "put" /\ job.reqs[n + 1].id = job.reqs[n].id
        /\ KindAt(n) = "put" =>
              /\ FollowsSameId(n, "fetch")
              /\ job.reqs[n].body = [customfield_10097 |-> VERSION]
        /\ KindAt(n) = "list" => FollowsSameId(n, "put")
        /\ KindAt(n) = "post" =>
              FollowsSameId(n, "list") /\ job.reqs[n - 1].status = 200

\* The reference whose fetch failed has the placeholder type, gets its PUT and
\* no call of the transitions endpoint.
FailedFetchOnlyPut ==
    \A n \in DOMAIN job.reqs :
        KindAt(n) = "fetch" /\ job.reqs[n].status # 200 =>
            LET id == job.reqs[n].id
            IN  /\ job.details[IdIndex(id)].type = EM_DASH
                /\ CallsOf("list", id) = {} /\ CallsOf("post", id) = {}
                /\ job.pc # "update" => Cardinality(CallsOf("put", id)) = 1

\* The references are fetched once each, in the order of the sorted batch; the
\* run that returns has issued one PUT per discovered reference.
OnePutPerReference ==
    /\ IsPrefix(FetchedIds, job.ids)
    /\ \A id \in {job.ids[n] : n \in DOMAIN job.ids} :
          /\ Cardinality(CallsOf("fetch", id)) <= 1
          /\ Cardinality(CallsOf("put", id)) <= 1
          /\ RunEnded /\ job.exit = ExitCode(0) =>
                Cardinality(CallsOf("put", id)) = 1

\* A run with references ends before its report only without credentials, on
\* an input file, or after the PUT of a reference whose 200 answer carries a
\* type that is no string.
EndsEarlyOnlyOn ==
    RunEnded /\ job.ids # <<>> /\ job.exit # ExitCode(0) =>
        \/ ConfigMissing(job.env) /\ job.reqs = <<>>
        \/ /\ job.reqs # <<>>
           /\ KindAt(Len(job.reqs)) = "put"
           /\ job.reqs[Len(job.reqs) - 1].status = 200
           /\ job.details[job.i].type.k # "str"

PlaceholderWritten ==
    /\ job.outs # <<>>
    /\ \A n \in DOMAIN job.outs :
          /\ job.outs[n].closed
          /\ job.outs[n].rows = <<>>
          /\ job.outs[n].placeholder \in {NO_ISSUES_LINE, NO_ISSUES_IN_CHANGELOGS}

\* C13: in every orchestrator a run that finds no reference in its input files
\* (all of them read without an exception) writes the placeholder to the output
\* and issues no request to the tracker.
C13_EmptyInput ==
    RunEnded /\ ~ReferencesFound /\ ~ReadFails => job.reqs = <<>> /\ PlaceholderWritten

\* The same of the tools other than jira_changelog_processor.py; it holds of them.
C13_ToolsWithPlaceholder ==
    RunEnded /\ ~ReferencesFound /\ ~ReadFails /\ job.tool # "jira_changelog_processor" =>
        job.reqs = <<>> /\ PlaceholderWritten /\ job.exit = ExitCode(0)

\* jira_changelog_processor.py exits with code 0 and leaves the output unwritten.
C13_ProcessorWritesNothing ==
    RunEnded /\ ~ReferencesFound /\ job.tool = "jira_changelog_processor" =>
        job.reqs = <<>> /\ job.outs = <<>> /\ job.exit = ExitCode(0)

(***************************************************************************)
(* Properties of the input files of a batch.                                 *)
(***************************************************************************)
\* The references of the files that exist, can be read and parsed, and have an
\* extension the tool supports
ReadableSupported(tool, cf) ==
    /\ cf.exists
    /\ cf.fault = "none"
    /\ cf.ext \in (IF tool = "jira_changelog_processor" THEN {"txt", "json"} ELSE {"txt"})
UsableIds ==
    UNION {ExtractJiraIds(job.tool, job.files[n].ext, job.files[n].text) :
              n \in {m \in DOMAIN job.files : ReadableSupported(job.tool, job.files[m])}}
PastDiscovery == job.pc \in {"fetch", "update", "write", "done"}

\* C14: in every multi-file orchestrator no input file ends the run, and the
\* references of the batch are those of the files that exist, can be read and
\* parsed and have a supported extension.
C14_NoFileAborts ==
    job.tool \in DetailTools /\ PastDiscovery =>
        /\ job.exit # FILE_ERROR
        /\ job.exit.k # "raise" /\ ~ConfigMissing(job.env) =>
              {job.ids[n] : n \in DOMAIN job.ids} = UsableIds

\* The same of jira_changelog_processor.py, whose extractor catches every exception
\* and checks the extension; it holds of it.
C14_Processor ==
    job.tool = "jira_changelog_processor" /\ PastDiscovery =>
        /\ job.exit # FILE_ERROR
        /\ {job.ids[n] : n \in DOMAIN job.ids} = UsableIds

\* parse_jira_titles.py and parse2.py: the run has ended on the exception of the
\* read of a file, before any fetch.
C14_ParseToolAborted ==
    /\ job.tool \in {"parse_jira_titles", "parse2"}
    /\ RunEnded /\ job.exit = FILE_ERROR
    /\ job.reqs = <<>> /\ job.outs = <<>>
    /\ \E n \in DOMAIN job.files : job.files[n] = ChangelogFile("txt", TWO_REFS)

(***************************************************************************)
(* Properties of the manifest tools.                                         *)
(***************************************************************************)
ManifestRunEnded == mf.pc = "done"
\* The manifest is a mapping and v is what it holds under require_files (Absent:
\* no such key)
RequireFilesIs(v) ==
    /\ mf.doc.k = "doc" /\ mf.doc.data.k = "map"
    /\ DataGet(mf.doc.data, REQUIRE_FILES, Absent) = v
EmptyTable == OutputFile(TRUE, <<>>, TRUE)

\* C15: with a manifest whose require_files section is missing or empty (no key,
\* an empty list, or the key with no value), parse_required_files.py logs a warning
\* and leaves the output directory and file as they were; parse_yaml.py creates the
\* directory and writes the table with its head and an empty body.
C15_EmptyRequireFiles ==
    ManifestRunEnded /\ (\E v \in {Absent, JList(<<>>), JNull} : RequireFilesIs(v)) =>
        /\ mf.tool = "parse_required_files" =>
              /\ mf.fs = mf.fs0
              /\ mf.log = <<"WARNING: No 'require_files' section found or it's empty">>
              /\ mf.exit = ExitCode(0)
        /\ mf.tool = "parse_yaml" =>
              /\ mf.fs = [dir |-> TRUE, out |-> EmptyTable]
              /\ mf.exit = ExitCode(0)

\* The same for a missing key and an empty list only; it holds.
C15_MissingKeyOrEmptyList ==
    ManifestRunEnded /\ (\E v \in {Absent, JList(<<>>)} : RequireFilesIs(v)) =>
        /\ mf.tool = "parse_required_files" =>
              /\ mf.fs = mf.fs0
              /\ mf.log = <<"WARNING: No 'require_files' section found or it's empty">>
              /\ mf.exit = ExitCode(0)
        /\ mf.tool = "parse_yaml" =>
              /\ mf.fs = [dir |-> TRUE, out |-> EmptyTable]
              /\ mf.exit = ExitCode(0)

\* parse_yaml.py on "require_files:" with no value: the head is written, the loop
\* raises TypeError and the table is left without its closing tags.
C15_NullSectionTruncates ==
    /\ ManifestRunEnded /\ mf.tool = "parse_yaml" /\ RequireFilesIs(JNull)
    /\ mf.exit = Raise("TypeError")
    /\ mf.fs.out = OutputFile(TRUE, <<>>, FALSE)

\* C16: in every manifest-reading tool, when the YAML file is absent or does not
\* parse, the run emits a diagnostic, writes no output and ends with a non-zero
\* exit status.
C16_LoadFailure ==
    ManifestRunEnded /\ mf.args_ok /\ mf.doc \in {YamlAbsent, YamlMalformed} =>
        /\ mf.log # <<>>
        /\ mf.fs = mf.fs0 /\ mf.stdout = <<>>
        /\ mf.exit # ExitCode(0)

\* What holds of all three: the diagnostic and no output; parse_required_files.py
\* returns from main and the process ends with status 0.
C16_DiagnosticNoOutput ==
    ManifestRunEnded /\ mf.args_ok /\ mf.doc \in {YamlAbsent, YamlMalformed} =>
        /\ mf.log # <<>>
        /\ mf.fs = mf.fs0 /\ mf.stdout = <<>>
        /\ (mf.exit = ExitCode(0)) <=> (mf.tool = "parse_required_files")

(***************************************************************************)
(* Properties of the repository monitor.                                     *)
(***************************************************************************)
Compared(p) == run[p].pc \in {"save", "done"} /\ run[p].diffed

\* C1: the reported new repositories are exactly the names of the current
\* snapshot that the previous one lacks; the reported archival changes are exactly
\* the names in both whose flags differ; the two sets are disjoint, and a name only
\* in the previous snapshot is in neither.
C1_SnapshotDiff ==
    \A p \in Procs : Compared(p) =>
        LET P == run[p].old_state
            C == run[p].current_state
            new == run[p].new_repos
            chg == run[p].archived_changed
        IN  /\ \A n \in RepoNames :
                 /\ n \in new <=> (n \in DOMAIN C /\ n \notin DOMAIN P)
                 /\ n \in chg <=> (n \in DOMAIN C /\ n \in DOMAIN P /\ C[n] # P[n])
                 /\ (n \in DOMAIN P /\ n \notin DOMAIN C) => (n \notin new /\ n \notin chg)
            /\ new \cap chg = {}

\* The example of the specification: previous {a: false, b: true}, current
\* {a: false, b: false, c: false}, new = {c}, changed = {b}.
C1_Witness ==
    \E p \in Procs :
        /\ Compared(p)
        /\ run[p].old_state = [n \in {"a", "b"} |-> n = "b"]
        /\ run[p].current_state = [n \in {"a", "b", "c"} |-> FALSE]
        /\ run[p].new_repos = {"c"}
        /\ run[p].archived_changed = {"b"}

\* C2: a run that finds no state file prints the first-run notice, computes and
\* prints no diff and still writes its snapshot to the file; the run after it,
\* against the same listing, reports no new repository and no archival change.
C2_FirstRun ==
    \A p \in Procs :
        /\ run[p].pc \in {"diff", "save", "done"} =>
              (run[p].is_first_run <=> ~run[p].pred.exists)
        /\ (run[p].pc \in {"save", "done"} /\ run[p].is_first_run) =>
              /\ run[p].out = <<"FIRST_RUN">>
              /\ ~run[p].diffed
        /\ (run[p].pc = "done" /\ run[p].is_first_run) =>
              /\ file.exists
              /\ JsonLoad(file.members) = run[p].current_state
        /\ (run[p].pc = "done" /\ run[p].pred.exists /\ run[p].pred.first
                /\ run[p].pred.same_listing) =>
              /\ ~run[p].is_first_run
              /\ run[p].diffed
              /\ run[p].new_repos = {}
              /\ run[p].archived_changed = {}
              /\ run[p].out = <<"NO_NEW_REPOS", "NO_ARCHIVED_CHANGED">>

\* The second run after a first run, with an unchanged non-empty listing.
C2_Witness ==
    \E p \in Procs :
        /\ run[p].pc = "done"
        /\ run[p].pred.exists /\ run[p].pred.first /\ run[p].pred.same_listing
        /\ Len(run[p].repos) = 2

\* The snapshot a listing stands for: every listed name with its flag.
ListedMembers(repos) == {<<repos[i].name, repos[i].archived>> : i \in DOMAIN repos}

\* C3: at the end of every completed run, first or not, compared or not, the state
\* file holds exactly the snapshot of that run's listing.
C3_Persisted ==
    \A p \in Procs : run[p].pc = "done" =>
        /\ file.exists
        /\ file.members = ListedMembers(run[p].repos)
        /\ run[p].saved

\* A completed run that compared, and whose listing differs from the snapshot it
\* loaded.
C3_Witness ==
    \E p \in Procs :
        /\ run[p].pc = "done"
        /\ run[p].diffed
        /\ run[p].new_repos # {}
        /\ run[p].archived_changed # {}

RECURSIVE ConcatData(_, _)
ConcatData(resps, k) ==
    IF k = 0 THEN <<>> ELSE ConcatData(resps, k - 1) \o resps[k].data

Returned(p) == run[p].pc \in {"load", "diff", "save", "done"}

\* C4: pages are requested in increasing order from page 1 with page size 100; the
\* listing returned is the concatenation of the pages before the first empty page,
\* where the loop stops; a non-200 answer aborts the run with an error carrying the
\* status and the body, and nothing of the partial listing is used.
C4_Pagination ==
    \A p \in Procs :
        LET rq == run[p].reqs
            rs == run[p].resps
            k == Len(rs)
        IN  /\ Len(rq) = k
            /\ \A i \in 1..k : rq[i].page = i /\ rq[i].per_page = 100
            /\ \A i \in 1..(k - 1) : rs[i].status = 200 /\ rs[i].data # <<>>
            /\ Returned(p) =>
                  /\ k >= 1
                  /\ rs[k].status = 200 /\ rs[k].data = <<>>
                  /\ run[p].repos = ConcatData(rs, k - 1)
            /\ run[p].pc = "fetch" =>
                  /\ run[p].page = k + 1
                  /\ \A i \in 1..k : rs[i].status = 200 /\ rs[i].data # <<>>
            /\ (k >= 1 /\ rs[k].status # 200) =>
                  /\ run[p].pc = "aborted"
                  /\ run[p].exit_code # 0
                  /\ run[p].err = [code |-> rs[k].status, body |-> rs[k].text]
                  /\ run[p].current_state = EmptySnapshot
                  /\ ~run[p].saved
                  /\ run[p].out = <<>>

\* A run aborted on its second page request.
C4_WitnessAborted ==
    /\ run[1].pc = "aborted"
    /\ Len(run[1].resps) = 2
    /\ run[1].resps[2].status = 500
    /\ Len(run[1].repos) = 1

\* A listing of two pages returned after three requests.
C4_Witness ==
    /\ run[1].pc = "load"
    /\ Len(run[1].reqs) = 3
    /\ Len(run[1].repos) = 2

(***************************************************************************)
(* Aborted runs of the repository monitor                                    *)
(***************************************************************************)
EnvMissing(r) == r.out = <<"ENV_ERROR">>
PageFailed(r) == \E i \in DOMAIN r.resps : r.resps[i].status # HTTP_OK
AbortedRun(r) == EnvMissing(r) \/ PageFailed(r)
DiffLines == {"NEW_REPOS", "NO_NEW_REPOS", "ARCHIVED_CHANGED", "NO_ARCHIVED_CHANGED"}
LinesOf(r) == {r.out[i] : i \in DOMAIN r.out}

\* The snapshot the most recent completed run left, as the next run loads it.
SnapshotOfLast == IF last.exists THEN BuildState(last.repos) ELSE EmptySnapshot

AbortedRunsEndClean ==
    \A p \in Procs :
        AbortedRun(run[p]) =>
            /\ run[p].pc = "aborted"
            /\ run[p].exit_code = 1
            /\ ~run[p].saved
            /\ ~run[p].diffed
            /\ LinesOf(run[p]) \cap DiffLines = {}

FileIsLastSnapshot ==
    /\ file.exists = last.exists
    /\ file.exists => JsonLoad(file.members) = SnapshotOfLast

NextRunSeesOldSnapshot ==
    \A p \in Procs :
        run[p].pc \in {"diff", "save"} =>
            /\ run[p].is_first_run = ~last.exists
            /\ run[p].old_state = SnapshotOfLast

AbortLeavesFile ==
    \A p \in Procs :
        run'[p].pc \in {"fetch", "aborted"} => file' = file /\ last' = last

\* C17: a run that finds a required environment variable missing, or gets a
\* non-200 answer for any listing page, ends aborted with exit status 1, prints
\* no diff, and from its start to its end the state file is neither created
\* nor modified; the file still holds the snapshot of the most recent completed
\* run, and the next run that completes compares against that snapshot.
C17_AbortedRunLeavesSnapshot ==
    /\ [](AbortedRunsEndClean /\ FileIsLastSnapshot /\ NextRunSeesOldSnapshot)
    /\ [][AbortLeavesFile]_vars

\* A run aborted on a later page while the stored snapshot differs from the
\* organisation's listing: the changes are still pending.
C17_Witness ==
    /\ run[1].pc = "aborted"
    /\ PageFailed(run[1])
    /\ Len(run[1].resps) >= 2
    /\ file.exists
    /\ JsonLoad(file.members) # remote
    /\ NewRepos(JsonLoad(file.members), remote) # {}

\* The same with the environment variable missing.
C17_WitnessEnv ==
    /\ run[1].pc = "aborted"
    /\ EnvMissing(run[1])
    /\ file.exists
    /\ JsonLoad(file.members) # remote

(***************************************************************************)
(* Successive runs of the repository monitor                                 *)
(***************************************************************************)
InListing(r, l) == \E i \in DOMAIN l : l[i].name = r
FlagIn(r, l) == l[CHOOSE i \in DOMAIN l : l[i].name = r].archived

\* Process p has printed its report and is at its last statement, the save;
\* `last` still describes the most recent run completed before it.
Completing(p) == run[p].pc = "save"

ReportedNew(p, r) == run[p].diffed /\ r \in run[p].new_repos
ReportedChanged(p, r) == run[p].diffed /\ r \in run[p].archived_changed

\* C18: with runs one after the other, listings changing between runs and some
\* runs aborting, a completing run is a first run exactly when no run completed
\* before it, and then reports no repository; otherwise it reports r as new iff
\* r is in its listing and not in the listing of the most recent completed run,
\* and as archival-changed iff r is in both listings with different flags. So a
\* repository listed by both runs is not reported as new again, and one absent
\* from the earlier listing is.
C18_ReportAgainstLastCompleted ==
    \A p \in Procs :
        Completing(p) =>
            /\ run[p].is_first_run = ~last.exists
            /\ run[p].diffed = last.exists
            /\ \A r \in RepoNames :
                  /\ ReportedNew(p, r) <=>
                        /\ last.exists
                        /\ InListing(r, run[p].repos)
                        /\ ~InListing(r, last.repos)
                  /\ ReportedChanged(p, r) <=>
                        /\ last.exists
                        /\ InListing(r, run[p].repos)
                        /\ InListing(r, last.repos)
                        /\ FlagIn(r, run[p].repos) # FlagIn(r, last.repos)
            /\ ("NEW_REPOS" \in LinesOf(run[p])) = (run[p].new_repos # {})
            /\ ("ARCHIVED_CHANGED" \in LinesOf(run[p])) = (run[p].archived_changed # {})

\* A run after a non-first completed run reports one repository as new, another
\* as archival-changed, and a third, listed by both runs, as neither.
C18_Witness ==
    /\ Completing(1)
    /\ last.exists /\ ~last.first
    /\ run[1].new_repos = {"c"}
    /\ run[1].archived_changed = {"a"}
    /\ InListing("b", run[1].repos) /\ InListing("b", last.repos)

(***************************************************************************)
(* Overlapping runs of the repository monitor                                *)
(***************************************************************************)
Others(p) == Procs \ {p}

\* Two runs have loaded the same file, neither has saved yet, and both have
\* printed the same new repository or the same archival change.
SameChangeReportedTwice(p, q) ==
    /\ Completing(p) /\ Completing(q)
    /\ run[p].diffed /\ run[q].diffed
    /\ \/ run[p].new_repos \cap run[q].new_repos # {}
       \/ run[p].archived_changed \cap run[q].archived_changed # {}

\* Process p wrote its snapshot after a run with a later listing had written.
WroteOlderListing(p) == run[p].pc = "done" /\ run[p].overtaken

\* C19: check_repos.py takes no lock, so runs may interleave at every step. A
\* run during which no other run was active compares against the snapshot of
\* the most recent completed run and is never overtaken: no other run lists
\* later and saves earlier. Whenever two runs report the same change from the
\* same loaded file, or a run writes the snapshot of an older listing over a
\* newer one, the runs overlapped.
C19_OnlyOverlappingRunsRace ==
    \A p \in Procs :
        /\ ~run[p].overlap =>
              /\ ~run[p].older /\ ~run[p].overtaken
              /\ run[p].pc \in {"diff", "save"} =>
                    /\ run[p].is_first_run = ~last.exists
                    /\ run[p].old_state = SnapshotOfLast
                    /\ file = (IF last.exists THEN SaveCurrentState(SnapshotOfLast)
                                ELSE NoFile)
              /\ \A q \in Others(p) : ~SameChangeReportedTwice(p, q)
        /\ WroteOlderListing(p) => run[p].overlap

\* Last writer wins: both runs loaded the same snapshot and reported "c" as
\* new; run 2 listed later (it saw "a" archived) and saved first; run 1 then
\* wrote its older listing over it, so the next run reports "a" again.
C19_Witness ==
    /\ WroteOlderListing(1)
    /\ run[2].pc = "done" /\ ~run[2].older
    /\ run[1].diffed /\ run[2].diffed
    /\ run[1].old_state = run[2].old_state
    /\ "c" \in run[1].new_repos \cap run[2].new_repos
    /\ "a" \in run[2].archived_changed
    /\ run[2].current_state = remote
    /\ file = SaveCurrentState(run[1].current_state)
    /\ ArchivedChanged(JsonLoad(file.members), remote) = {"a"}

\* Both runs have printed the same new repository before either saves.
C19_WitnessBothReport ==
    /\ SameChangeReportedTwice(1, 2)
    /\ "c" \in run[1].new_repos \cap run[2].new_repos
    /\ run[1].old_state = run[2].old_state

====
